---- MODULE Spec2Model ----
(***************************************************************************)
(* A model of the BlipLogs SDK (src/src/index.ts): one BlipLogs instance   *)
(* living in an execution environment whose capabilities (window,          *)
(* document, navigator, sendBeacon, fetch, PerformanceObserver,            *)
(* sessionStorage) may each be present or absent.  The operations are the  *)
(* public track call, the bandwidth batcher's handlers (observer callback, *)
(* periodic timer, visibility change, stop) and the continuation of a      *)
(* dispatched fetch.  Every run of a handler is one step; `out` records    *)
(* what that run did to the outside world (transport calls, error-channel  *)
(* reports, storage accesses, return value, escaped exception).            *)
(***************************************************************************)
EXTENDS Integers, Sequences, FiniteSets, TLC

\* ------------------------------------------------------------------ bounds
MaxTicks == 3        \* clock advances per behaviour
MaxPending == 1      \* fetch requests in flight
MaxObs == 2          \* resource entries observed per behaviour
MaxList == 1         \* entries delivered by one observer callback
MaxUuids == 4        \* session ids generated per behaviour
BatchSize == 2       \* the configured bandwidth maxBatchSize

\* -------------------------------------------------------- program constants
SESSION_TIMEOUT == 1800000

Undefined == "undefined"
Levels == {"info", "warn", "error"}
Events == {"", "signup"}
ApiKeys == {Undefined, "sk_secret"}
ProjectId == "p1"

\* ------------------------------------------------------------- environment
\* navigator: "absent" (typeof navigator === 'undefined'), "noBeacon"
\* (navigator without sendBeacon) or "beacon".
Navigators == {"absent", "noBeacon", "beacon"}

\* A URL string: kind "undefined" (no value), "empty" (the string ''),
\* "absolute" (new URL parses it) or "other" (new URL throws).  base is the
\* text before the first '?', question says whether there is a '?', query lists
\* the parameters after it, hash is the fragment after them ("" for none).
Param(key, value) == [key |-> key, value |-> value]
Url(kind, base, question, query, hash) ==
  [kind |-> kind, base |-> base, question |-> question, query |-> query,
   hash |-> hash]
UndefinedUrl == Url("undefined", "", FALSE, <<>>, "")
EmptyUrl == Url("empty", "", FALSE, <<>>, "")
PageUrl ==
  Url("absolute", "https://shop.example/cart", TRUE,
      <<Param("Token", "abc"), Param("q", "shoes")>>, "")
ReferrerUrl == Url("absolute", "https://search.example/", FALSE, <<>>, "")
\* PerformanceResourceTiming.name: the resolved URL of a fetched resource
ResourceUrl ==
  Url("absolute", "https://cdn.example/app.js", TRUE, <<Param("v", "3")>>,
      "main")
\* window.location?.href and document.referrer
Hrefs == {UndefinedUrl, PageUrl}
Referrers == {EmptyUrl, ReferrerUrl}

Envs ==
  [window : BOOLEAN, document : BOOLEAN, navigator : Navigators,
   fetch : BOOLEAN, PerformanceObserver : BOOLEAN, sessionStorage : BOOLEAN,
   href : Hrefs, referrer : Referrers]

\* What navigator.sendBeacon(endpoint, blob) can do when it exists.
BeaconOutcomes == {"true", "false", "throws"}
\* What a dispatched fetch can settle to: a rejection or a response status.
Statuses == {200, 400, 401, 429, 500}
Rejected == [rejected |-> TRUE, status |-> 0]
Response(status) == [rejected |-> FALSE, status |-> status]
FetchOutcomes == {Rejected} \cup {Response(status) : status \in Statuses}
ResponseOk(status) == status >= 200 /\ status <= 299

\* ----------------------------------------------------------- configuration
OnErrors == {"none", "returns", "throws"}
BatchSizes == {1, BatchSize}
\* config.projectId: missing or given
ProjectIds == {"", ProjectId}
\* trackBandwidth.resourceTypes: no allow-list, or a list of one type
ResourceTypeLists == {{}, {"script"}, {"other"}}
Configs ==
  [projectId : ProjectIds, apiKey : ApiKeys, debug : BOOLEAN, onError : OnErrors,
   resourceTypes : ResourceTypeLists, sanitizeUrls : BOOLEAN,
   collectUrl : BOOLEAN, collectReferrer : BOOLEAN, collectUserAgent : BOOLEAN,
   collectSessionId : BOOLEAN, trackBandwidth : BOOLEAN,
   maxBatchSize : BatchSizes]

VARIABLES
  env,                  \* capabilities of the execution environment
  cfg,                  \* the instance's resolved configuration
  clock,                \* Date.now()
  ticks,                \* clock advances so far
  observed,             \* resource entries delivered so far
  visibilityListener,   \* the visibilitychange listener is registered
  mem,                  \* sessionStorage, instance fields, fetches in flight
  out,                  \* what the last handler run did
  peer,                 \* the fields of a second instance on the same page
  globalInstance        \* BlipLogs.globalInstance: "null", or which instance

vars ==
  <<env, cfg, clock, ticks, observed, visibilityListener, mem, out, peer,
    globalInstance>>

\* ------------------------------------------------- number <-> string
\* Number.prototype.toString() of a non-negative integer: its decimal digits.
RECURSIVE ToDigits(_)
ToDigits(n) == IF n < 10 THEN <<n>> ELSE Append(ToDigits(n \div 10), n % 10)

\* parseInt(str, 10): the value of the longest leading run of digits, NaN when
\* there is none.  A character that is no digit is modelled as -1.
RECURSIVE LeadingValue(_, _)
LeadingValue(str, acc) ==
  IF str = <<>> \/ Head(str) < 0 THEN acc
  ELSE LeadingValue(Tail(str), acc * 10 + Head(str))

parseInt(str) ==
  IF str = <<>> \/ Head(str) < 0 THEN [nan |-> TRUE, val |-> 0]
  ELSE [nan |-> FALSE, val |-> LeadingValue(str, 0)]

\* ------------------------------------------------------------ machine state
\* The handlers are written as operators from machine state to machine state.
\* The first group of fields is what persists between handler runs; the second
\* group is the record of the current run and is cleared by Begin.
\* A session id is a positive number; NoId stands for null and undefined.
NoId == 0
NoStorage == [id |-> NoId, ts |-> <<>>]
MemInit ==
  [storage |-> NoStorage,       \* blip_session_id, blip_session_ts
   uuids |-> 0,                 \* crypto.randomUUID() calls so far
   bandwidthBuffer |-> <<>>,
   bandwidthObserver |-> FALSE,      \* non-null
   bandwidthIntervalId |-> FALSE,    \* non-null
   network |-> <<>>,            \* dispatched fetches not yet settled
   sessionLog |-> <<>>,         \* the last two getSessionId results
   calls |-> <<>>,              \* transport log of this run, in call order
   errors |-> <<>>,             \* handleError calls of this run
   callback |-> <<>>,           \* onError calls of this run
   console |-> <<>>,            \* console lines of this run
   reads |-> 0,                 \* sessionStorage.getItem calls of this run
   writes |-> 0,                \* sessionStorage.setItem calls of this run
   sid |-> NoId,                \* the value getSessionId last returned
   fault |-> "none",            \* what sessionStorage and crypto do in this run
   threw |-> FALSE,             \* an exception is propagating
   ret |-> "void",
   \* history, for stating properties: the resource entries pushed to the
   \* buffer so far and those handed to sendBandwidth so far, in order
   accepted |-> <<>>,
   handedOver |-> <<>>]

\* The fields an instance keeps for itself; sessionStorage, crypto and the
\* network belong to the page and are shared by all its instances.
Private(m) ==
  [bandwidthBuffer |-> m.bandwidthBuffer,
   bandwidthObserver |-> m.bandwidthObserver,
   bandwidthIntervalId |-> m.bandwidthIntervalId,
   accepted |-> m.accepted,
   handedOver |-> m.handedOver]
\* The page with the instance whose fields are p at work.
WithPrivate(m, p) ==
  [m EXCEPT !.bandwidthBuffer = p.bandwidthBuffer,
            !.bandwidthObserver = p.bandwidthObserver,
            !.bandwidthIntervalId = p.bandwidthIntervalId,
            !.accepted = p.accepted,
            !.handedOver = p.handedOver]
\* No second instance has been constructed.
NoPeer == Private(MemInit)

\* The sessionStorage or crypto call that throws in a run, if any.
StorageFaults == {"none", "getItem", "randomUUID", "setItem"}

Begin(m) ==
  [m EXCEPT !.calls = <<>>, !.errors = <<>>,
            !.callback = <<>>, !.console = <<>>, !.reads = 0, !.writes = 0,
            !.sid = NoId, !.fault = "none", !.threw = FALSE, !.ret = "void"]

BeginWith(m, fault) == [Begin(m) EXCEPT !.fault = fault]

\* A function returns v, unless an exception is propagating through it.
Return(m, v) == IF m.threw THEN [m EXCEPT !.ret = "threw"]
                ELSE [m EXCEPT !.ret = v]

Last2(seq) == IF Len(seq) <= 2 THEN seq ELSE SubSeq(seq, Len(seq) - 1, Len(seq))

\* ----------------------------------------------------------- getSessionId
\* getSessionId that takes a stored timestamp of 0 for a time.
getSessionIdKeepsZero(e, m, now) ==
  IF ~e.window \/ ~e.sessionStorage THEN [m EXCEPT !.sid = NoId]
  ELSE
    LET sessionId == m.storage.id
        lastActivityStr == m.storage.ts
        lastActivity == IF lastActivityStr # <<>> THEN parseInt(lastActivityStr)
                        ELSE [nan |-> TRUE, val |-> 0]
        noActivity == lastActivity.nan
        renew == sessionId = NoId \/ noActivity
                 \/ (now - lastActivity.val > SESSION_TIMEOUT)
        id == IF renew THEN m.uuids + 1 ELSE sessionId
    IN \* try { ... } catch (error) { return undefined }
       IF m.fault = "getItem" THEN [m EXCEPT !.reads = @ + 1, !.sid = NoId]
       ELSE IF renew /\ m.fault = "randomUUID"
       THEN [m EXCEPT !.reads = @ + 2, !.sid = NoId]
       ELSE IF m.fault = "setItem"
       THEN [m EXCEPT !.reads = @ + 2, !.writes = @ + 1,
                      !.uuids = IF renew THEN @ + 1 ELSE @, !.sid = NoId]
       ELSE [m EXCEPT !.storage = [id |-> id, ts |-> ToDigits(now)],
                      !.uuids = IF renew THEN @ + 1 ELSE @,
                      !.reads = @ + 2,
                      !.writes = @ + (IF renew THEN 2 ELSE 1),
                      !.sid = id,
                      !.sessionLog = Last2(Append(@, [t |-> now, id |-> id]))]

getSessionId(e, m, now) ==
  IF ~e.window \/ ~e.sessionStorage THEN [m EXCEPT !.sid = NoId]
  ELSE
    LET sessionId == m.storage.id
        lastActivityStr == m.storage.ts
        lastActivity == IF lastActivityStr # <<>> THEN parseInt(lastActivityStr)
                        ELSE [nan |-> TRUE, val |-> 0]
        \* !lastActivity: null, NaN and 0 are all falsy
        noActivity == lastActivity.nan \/ lastActivity.val = 0
        renew == sessionId = NoId \/ noActivity
                 \/ (now - lastActivity.val > SESSION_TIMEOUT)
        id == IF renew THEN m.uuids + 1 ELSE sessionId
    IN \* try { ... } catch (error) { return undefined }
       IF m.fault = "getItem" THEN [m EXCEPT !.reads = @ + 1, !.sid = NoId]
       ELSE IF renew /\ m.fault = "randomUUID"
       THEN [m EXCEPT !.reads = @ + 2, !.sid = NoId]
       ELSE IF m.fault = "setItem"
       THEN [m EXCEPT !.reads = @ + 2, !.writes = @ + 1,
                      !.uuids = IF renew THEN @ + 1 ELSE @, !.sid = NoId]
       ELSE [m EXCEPT !.storage = [id |-> id, ts |-> ToDigits(now)],
                      !.uuids = IF renew THEN @ + 1 ELSE @,
                      !.reads = @ + 2,
                      !.writes = @ + (IF renew THEN 2 ELSE 1),
                      !.sid = id,
                      !.sessionLog = Last2(Append(@, [t |-> now, id |-> id]))]

\* ------------------------------------------------------------- handleError
BlipLogsError(type, statusCode) == [type |-> type, statusCode |-> statusCode]
NoStatus == 0

\* handleError without its try/catch around the callback.
handleErrorUncaught(c, m, blipError) ==
  LET m0 == [m EXCEPT !.errors = Append(@, blipError)]
      m1 == IF c.debug THEN [m0 EXCEPT !.console = Append(@, "error")] ELSE m0
  IN IF c.onError = "none" THEN m1
     ELSE [m1 EXCEPT !.callback = Append(@, blipError),
                     !.threw = (c.onError = "throws")]

handleError(c, m, blipError) ==
  LET m0 == [m EXCEPT !.errors = Append(@, blipError)]
      m1 == IF c.debug THEN [m0 EXCEPT !.console = Append(@, "error")] ELSE m0
  IN IF c.onError = "none" THEN m1
     ELSE \* try { this.onError(error) } catch (callbackError) { ... }
       LET m2 == [m1 EXCEPT !.callback = Append(@, blipError)]
       IN IF c.onError = "throws" /\ c.debug
          THEN [m2 EXCEPT !.console = Append(@, "error in onError callback")]
          ELSE m2

\* -------------------------------------------------------------- sanitizeUrl
SENSITIVE_PARAMS ==
  {"token", "access_token", "refresh_token", "id_token",
   "apikey", "api_key", "api-key", "key",
   "password", "pwd", "pass", "secret",
   "auth", "authorization", "bearer",
   "session", "sessionid", "session_id",
   "code", "state", "nonce",
   "email", "phone", "ssn",
   "credit_card", "cc", "cvv", "card"}

\* String.prototype.toLowerCase on the parameter names that occur.
toLowerCase(str) ==
  CASE str = "Token" -> "token"
    [] str = "TOKEN" -> "token"
    [] str = "Q" -> "q"
    [] OTHER -> str

\* URLSearchParams.set(key, value): the first parameter named key gets the
\* value, every other parameter of that name is removed.
Without(query, key) == SelectSeq(query, LAMBDA p : p.key # key)
FirstNamed(query, key) ==
  CHOOSE i \in 1..Len(query) :
    query[i].key = key /\ \A j \in 1..(i - 1) : query[j].key # key
SetParam(query, key, value) ==
  IF \A i \in 1..Len(query) : query[i].key # key
  THEN Append(query, Param(key, value))
  ELSE LET i == FirstNamed(query, key)
       IN SubSeq(query, 1, i - 1) \o <<Param(key, value)>>
            \o Without(SubSeq(query, i + 1, Len(query)), key)

RECURSIVE Redact(_, _)
Redact(query, paramsToRedact) ==
  IF paramsToRedact = <<>> THEN query
  ELSE Redact(SetParam(query, Head(paramsToRedact).key, "[REDACTED]"),
              Tail(paramsToRedact))

\* sanitizeUrl that compares the parameter names as they are written.
sanitizeUrlCaseSensitive(url) ==
  IF url.kind \in {"undefined", "empty"} THEN UndefinedUrl
  ELSE IF url.kind = "absolute"
  THEN LET paramsToRedact ==
             SelectSeq(url.query, LAMBDA p : p.key \in SENSITIVE_PARAMS)
       IN [url EXCEPT !.query = Redact(@, paramsToRedact)]
  ELSE IF url.question
  THEN [url EXCEPT !.query = <<Param("[QUERY_REDACTED]", "")>>, !.hash = ""]
  ELSE url

\* sanitizeUrl whose fallback returns the string it was given.
sanitizeUrlFallbackKeepsQuery(url) ==
  IF url.kind \in {"undefined", "empty"} THEN UndefinedUrl
  ELSE IF url.kind = "absolute"
  THEN LET paramsToRedact ==
             SelectSeq(url.query,
                       LAMBDA p : toLowerCase(p.key) \in SENSITIVE_PARAMS)
       IN [url EXCEPT !.query = Redact(@, paramsToRedact)]
  ELSE url

sanitizeUrl(url) ==
  IF url.kind \in {"undefined", "empty"} THEN UndefinedUrl
  ELSE IF url.kind = "absolute"
  THEN LET paramsToRedact ==
             SelectSeq(url.query,
                       LAMBDA p : toLowerCase(p.key) \in SENSITIVE_PARAMS)
       IN [url EXCEPT !.query = Redact(@, paramsToRedact)]
  ELSE IF url.question
  THEN [url EXCEPT !.query = <<Param("[QUERY_REDACTED]", "")>>, !.hash = ""]
  ELSE url

\* --------------------------------------------------------------- getContext
\* The result is [threw, context]: reading document.referrer or
\* navigator.userAgent raises a ReferenceError when the global is not defined.
BaseContext == [projectId |-> ProjectId, url |-> UndefinedUrl,
                referrer |-> UndefinedUrl, userAgent |-> Undefined]

\* getContext that collects everything, whatever the privacy flags say.
getContextCollectsAll(e, c) ==
  IF ~e.window
  THEN [threw |-> FALSE, context |-> [BaseContext EXCEPT !.projectId = c.projectId]]
  ELSE IF ~e.document \/ e.navigator = "absent"
       THEN [threw |-> TRUE, context |-> BaseContext]
       ELSE [threw |-> FALSE,
             context |-> [projectId |-> c.projectId,
                          url |-> sanitizeUrl(e.href),
                          referrer |-> sanitizeUrl(e.referrer),
                          userAgent |-> "userAgent"]]

getContext(e, c) ==
  IF ~e.window
  THEN [threw |-> FALSE, context |-> [BaseContext EXCEPT !.projectId = c.projectId]]
  ELSE IF (c.collectReferrer /\ ~e.document)
          \/ (c.collectUserAgent /\ e.navigator = "absent")
       THEN [threw |-> TRUE, context |-> BaseContext]
       ELSE [threw |-> FALSE,
             context |-> [projectId |-> c.projectId,
                          url |-> IF c.collectUrl THEN sanitizeUrl(e.href)
                                  ELSE UndefinedUrl,
                          referrer |-> IF c.collectReferrer
                                       THEN sanitizeUrl(e.referrer)
                                       ELSE UndefinedUrl,
                          userAgent |-> IF c.collectUserAgent THEN "userAgent"
                                        ELSE Undefined]]

\* ------------------------------------------------------- the transport log
\* One entry per payload handed to send or sendBandwidth (via "send"), per
\* navigator.sendBeacon call (via "beacon", with what the call did) and per
\* fetch call (via "fetch", with its headers); n numbers the payloads of a run.
NoHeaders == [x_api_key |-> Undefined]
Call(via, n, endpoint, headers, body, outcome) ==
  [via |-> via, n |-> n, endpoint |-> endpoint, headers |-> headers,
   body |-> body, outcome |-> outcome]

Via(m, via) == SelectSeq(m.calls, LAMBDA call : call.via = via)
Handed(m, body, endpoint) ==
  [m EXCEPT !.calls = Append(@, Call("send", Len(Via(m, "send")) + 1, endpoint,
                                     NoHeaders, body, "none"))]
Beaconed(m, body, endpoint, sent) ==
  [m EXCEPT !.calls = Append(@, Call("beacon", Len(Via(m, "send")), endpoint,
                                     NoHeaders, body, sent))]
Fetched(m, body, endpoint, headers) ==
  [m EXCEPT !.calls = Append(@, Call("fetch", Len(Via(m, "send")), endpoint,
                                     headers, body, "pending")),
            !.network = Append(@, endpoint)]

\* ---------------------------------------------------- send, sendWithFetch
Headers(c) == [x_api_key |-> c.apiKey]

\* sendWithFetch that reports nothing when fetch is not defined.
sendWithFetchSilent(e, c, m, body) ==
  IF e.fetch
  THEN Return(Fetched(m, body, "events", Headers(c)), "true")
  ELSE Return(m, "false")

sendWithFetch(e, c, m, body) ==
  IF e.fetch
  THEN Return(Fetched(m, body, "events", Headers(c)), "true")
  ELSE Return(handleError(c, m, BlipLogsError("unknown", NoStatus)), "false")

\* b[k] is what the k-th sendBeacon call of this run does.
\* send that takes a sendBeacon call that did not throw for a success.
sendIgnoresBeaconResult(e, c, m, payload, b) ==
  LET body == [payload |-> payload, project_id |-> c.projectId,
               api_key |-> c.apiKey]
      m0 == Handed(m, body, "events")
  IN IF e.navigator = "beacon"
     THEN LET sent == b[Len(Via(m0, "beacon")) + 1]
              m1 == Beaconed(m0, body, "events", sent)
          IN IF sent # "throws" THEN Return(m1, "true")
             ELSE sendWithFetch(e, c, m1, body)
     ELSE sendWithFetch(e, c, m0, body)

send(e, c, m, payload, b) ==
  LET body == [payload |-> payload, project_id |-> c.projectId,
               api_key |-> c.apiKey]
      m0 == Handed(m, body, "events")
  IN IF e.navigator = "beacon"
     THEN LET sent == b[Len(Via(m0, "beacon")) + 1]
              m1 == Beaconed(m0, body, "events", sent)
          IN IF sent = "true" THEN Return(m1, "true")
             ELSE sendWithFetch(e, c, m1, body)
     ELSE sendWithFetch(e, c, m0, body)

\* -------------------------------------------------------------------- track
\* Date.prototype.toISOString: the calendar day and the time of day; Date.parse
\* reads the milliseconds back.
MsPerDay == 86400000
toISOString(t) == [day |-> t \div MsPerDay, time |-> t % MsPerDay]
DateParse(iso) == iso.day * MsPerDay + iso.time

\* now is the Date.now() read at the start, iso the time new Date() reads.
\* track with the session looked up before the event name is checked.
trackSessionFirst(e, c, m, event, level, now, iso, b) ==
  LET m1 == IF c.collectSessionId THEN getSessionId(e, m, now) ELSE m
      ctx == getContext(e, c)
      payload == [event |-> event, level |-> level,
                  context |-> ctx.context, timestamp |-> toISOString(iso),
                  session_id |-> m1.sid, timestamp_ms |-> now]
  IN IF event = ""
     THEN Return([m1 EXCEPT !.console =
                           Append(@, "warn: event name is required")], "false")
     ELSE IF ctx.threw THEN [m1 EXCEPT !.threw = TRUE, !.ret = "threw"]
     ELSE send(e, c, m1, payload, b)

\* track that looks the session up whatever collectSessionId says.
trackAlwaysSession(e, c, m, event, level, now, iso, b) ==
  IF event = ""
  THEN Return([m EXCEPT !.console =
                          Append(@, "warn: event name is required")], "false")
  ELSE
    LET m1 == getSessionId(e, m, now)
        ctx == getContext(e, c)
        payload == [event |-> event, level |-> level,
                    context |-> ctx.context, timestamp |-> toISOString(iso),
                    session_id |-> m1.sid, timestamp_ms |-> now]
    IN IF ctx.threw THEN [m1 EXCEPT !.threw = TRUE, !.ret = "threw"]
       ELSE send(e, c, m1, payload, b)

track(e, c, m, event, level, now, iso, b) ==
  IF event = ""
  THEN Return([m EXCEPT !.console =
                          Append(@, "warn: event name is required")], "false")
  ELSE
    LET m1 == IF c.collectSessionId THEN getSessionId(e, m, now) ELSE m
        ctx == getContext(e, c)
        payload == [event |-> event, level |-> level,
                    context |-> ctx.context, timestamp |-> toISOString(iso),
                    session_id |-> m1.sid, timestamp_ms |-> now]
    IN IF ctx.threw THEN [m1 EXCEPT !.threw = TRUE, !.ret = "threw"]
       ELSE send(e, c, m1, payload, b)

info(e, c, m, event, now, iso, b) == track(e, c, m, event, "info", now, iso, b)
\* warn with a level outside BlipLevel.
warnAsWarning(e, c, m, event, now, iso, b) ==
  track(e, c, m, event, "warning", now, iso, b)
warn(e, c, m, event, now, iso, b) == track(e, c, m, event, "warn", now, iso, b)
error(e, c, m, event, now, iso, b) == track(e, c, m, event, "error", now, iso, b)

\* ------------------------------------------------ the fetch continuation
\* .then(response => { if (!response.ok) handleError(...) }).catch(handleError)
\* ErrorType with 401 and 400 taken for each other.
ErrorTypeSwapped(status) ==
  IF status = 429 THEN "rate_limit"
  ELSE IF status = 400 THEN "auth"
  ELSE IF status = 401 THEN "validation"
  ELSE "unknown"

ErrorType(status) ==
  IF status = 429 THEN "rate_limit"
  ELSE IF status = 401 THEN "auth"
  ELSE IF status = 400 THEN "validation"
  ELSE "unknown"

\* The .catch handler: it also receives what the .then handler throws.  An
\* exception leaving it is an unhandled rejection.
onRejected(c, m) ==
  Return(handleError(c, [m EXCEPT !.threw = FALSE],
                     BlipLogsError("network", NoStatus)), "void")

onFulfilled(c, m, status) ==
  IF ResponseOk(status) THEN m
  ELSE LET m1 == handleError(c, m, BlipLogsError(ErrorType(status), status))
       IN IF m1.threw THEN onRejected(c, m1) ELSE m1

\* The continuation without its .catch: a rejection stays unhandled.
eventContinuationNoCatch(c, m, outcome) ==
  IF outcome.rejected THEN [m EXCEPT !.threw = TRUE, !.ret = "threw"]
  ELSE onFulfilled(c, m, outcome.status)

eventContinuation(c, m, outcome) ==
  IF outcome.rejected THEN onRejected(c, m)
  ELSE onFulfilled(c, m, outcome.status)

\* A .catch that puts the resources handed over so far back into the buffer.
bandwidthContinuationRestores(c, m, outcome) ==
  IF outcome.rejected
  THEN [onRejected(c, m) EXCEPT !.bandwidthBuffer = m.handedOver \o @]
  ELSE m

\* sendBandwidth attaches only .catch
bandwidthContinuation(c, m, outcome) ==
  IF outcome.rejected THEN onRejected(c, m) ELSE m

\* ------------------------------------------------------------ sendBandwidth
sendBandwidth(e, c, m, payload, b) ==
  LET body == payload
      m0 == [Handed(m, body, "bandwidth") EXCEPT
               !.handedOver = @ \o payload.resources]
      tried == e.navigator = "beacon"
      sent == IF tried THEN b[Len(Via(m0, "beacon")) + 1] ELSE "false"
      m1 == IF tried THEN Beaconed(m0, body, "bandwidth", sent) ELSE m0
  IN IF sent = "true" THEN Return(m1, "true")
     ELSE IF e.fetch
          THEN Return(Fetched(m1, body, "bandwidth", Headers(c)), "true")
          ELSE Return(m1, "false")

\* ------------------------------------------------------- flushBandwidthBatch
\* A splice that takes one entry fewer.
MinLessOne(a, b) == (IF a < b THEN a ELSE b) - 1
Min(a, b) == IF a < b THEN a ELSE b

\* A total that stops after the first resource.
HeadTransferSize(resources) ==
  IF resources = <<>> THEN 0 ELSE Head(resources).transferSize

RECURSIVE SumTransferSize(_)
SumTransferSize(resources) ==
  IF resources = <<>> THEN 0
  ELSE Head(resources).transferSize + SumTransferSize(Tail(resources))

\* flushBandwidthBatch that leaves the session alone.
flushWithoutSession(e, c, m, now, b) ==
  IF Len(m.bandwidthBuffer) = 0 THEN Return(m, "void")
  ELSE
    LET k == Min(Len(m.bandwidthBuffer), c.maxBatchSize)
        resources == SubSeq(m.bandwidthBuffer, 1, k)
        m1 == [m EXCEPT !.bandwidthBuffer =
                           SubSeq(@, k + 1, Len(m.bandwidthBuffer))]
        parsedUserAgent ==
          IF c.collectUserAgent /\ e.navigator # "absent" THEN "parsed"
          ELSE Undefined
        m2 == m1
        ctx == getContext(e, c)
        payload == [resources |-> resources, session_id |-> m2.sid,
                    timestamp_ms |-> now, project_id |-> c.projectId,
                    api_key |-> c.apiKey, context |-> ctx.context,
                    totalTransferSize |-> SumTransferSize(resources),
                    resourceCount |-> Len(resources),
                    userAgent |-> parsedUserAgent]
    IN IF ctx.threw THEN [m2 EXCEPT !.threw = TRUE, !.ret = "threw"]
       ELSE \* the boolean of sendBandwidth is dropped
            Return(sendBandwidth(e, c, m2, payload, b), "void")

flushBandwidthBatch(e, c, m, now, b) ==
  IF Len(m.bandwidthBuffer) = 0 THEN Return(m, "void")
  ELSE
    LET k == Min(Len(m.bandwidthBuffer), c.maxBatchSize)
        resources == SubSeq(m.bandwidthBuffer, 1, k)
        m1 == [m EXCEPT !.bandwidthBuffer =
                           SubSeq(@, k + 1, Len(m.bandwidthBuffer))]
        parsedUserAgent ==
          IF c.collectUserAgent /\ e.navigator # "absent" THEN "parsed"
          ELSE Undefined
        m2 == IF c.collectSessionId THEN getSessionId(e, m1, now) ELSE m1
        ctx == getContext(e, c)
        payload == [resources |-> resources, session_id |-> m2.sid,
                    timestamp_ms |-> now, project_id |-> c.projectId,
                    api_key |-> c.apiKey, context |-> ctx.context,
                    totalTransferSize |-> SumTransferSize(resources),
                    resourceCount |-> Len(resources),
                    userAgent |-> parsedUserAgent]
    IN IF ctx.threw THEN [m2 EXCEPT !.threw = TRUE, !.ret = "threw"]
       ELSE \* the boolean of sendBandwidth is dropped
            Return(sendBandwidth(e, c, m2, payload, b), "void")

\* ------------------------------------------------------ recordResourceTiming
\* The n-th entry the observer delivers starts at time n.
InitiatorTypes == {"script"}
TransferSizes == {7}
ResourceNames == {ResourceUrl}
Entries(n) ==
  [name : ResourceNames, initiatorType : InitiatorTypes,
   transferSize : TransferSizes, startTime : {n}]

\* ------------------------------------------------------ sanitizeResourceUrl
UnknownUrl == Url("other", "[UNKNOWN]", FALSE, <<>>, "")

\* sanitizeResourceUrl that stops after sanitizeUrl.
sanitizeResourceUrlKeepsQuery(url) ==
  LET sanitized == sanitizeUrl(url)
  IN IF sanitized = UndefinedUrl THEN UnknownUrl ELSE sanitized

sanitizeResourceUrl(url) ==
  LET sanitized == sanitizeUrl(url)
  IN IF sanitized = UndefinedUrl THEN UnknownUrl
     ELSE IF sanitized.kind = "absolute"
     THEN \* urlObj.origin + urlObj.pathname
          [sanitized EXCEPT !.question = FALSE, !.query = <<>>, !.hash = ""]
     ELSE sanitized

\* ------------------------------------------------------ recordResourceTiming
\* recordResourceTiming without the allow-list check.
recordWithoutFilter(e, c, m, entry, now, b) ==
  LET initiatorType == IF entry.initiatorType = "" THEN "other"
                       ELSE entry.initiatorType
      url == IF c.sanitizeUrls THEN sanitizeResourceUrl(entry.name)
             ELSE entry.name
      resourceEntry == [url |-> url,
                        resourceType |-> initiatorType,
                        transferSize |-> entry.transferSize,
                        startTime |-> entry.startTime]
      m1 == [m EXCEPT !.bandwidthBuffer = Append(@, resourceEntry),
                      !.accepted = Append(@, resourceEntry)]
  IN IF Len(m1.bandwidthBuffer) >= c.maxBatchSize
     THEN flushBandwidthBatch(e, c, m1, now, b)
     ELSE Return(m1, "void")

\* recordResourceTiming that flushes only once the buffer exceeds the limit.
recordFlushesLate(e, c, m, entry, now, b) ==
  LET initiatorType == IF entry.initiatorType = "" THEN "other"
                       ELSE entry.initiatorType
      url == IF c.sanitizeUrls THEN sanitizeResourceUrl(entry.name)
             ELSE entry.name
      resourceEntry == [url |-> url,
                        resourceType |-> initiatorType,
                        transferSize |-> entry.transferSize,
                        startTime |-> entry.startTime]
      m1 == [m EXCEPT !.bandwidthBuffer = Append(@, resourceEntry),
                      !.accepted = Append(@, resourceEntry)]
  IN IF c.resourceTypes # {} /\ initiatorType \notin c.resourceTypes
     THEN Return(m, "void")
     ELSE IF Len(m1.bandwidthBuffer) > c.maxBatchSize
     THEN flushBandwidthBatch(e, c, m1, now, b)
     ELSE Return(m1, "void")

recordResourceTiming(e, c, m, entry, now, b) ==
  LET initiatorType == IF entry.initiatorType = "" THEN "other"
                       ELSE entry.initiatorType
      url == IF c.sanitizeUrls THEN sanitizeResourceUrl(entry.name)
             ELSE entry.name
      resourceEntry == [url |-> url,
                        resourceType |-> initiatorType,
                        transferSize |-> entry.transferSize,
                        startTime |-> entry.startTime]
      m1 == [m EXCEPT !.bandwidthBuffer = Append(@, resourceEntry),
                      !.accepted = Append(@, resourceEntry)]
  IN IF c.resourceTypes # {} /\ initiatorType \notin c.resourceTypes
     THEN Return(m, "void")
     ELSE IF Len(m1.bandwidthBuffer) >= c.maxBatchSize
     THEN flushBandwidthBatch(e, c, m1, now, b)
     ELSE Return(m1, "void")

\* The PerformanceObserver callback: for (const entry of list.getEntries())
RECURSIVE observerCallback(_, _, _, _, _, _)
observerCallback(e, c, m, list, now, b) ==
  IF list = <<>> \/ m.threw THEN m
  ELSE observerCallback(e, c, recordResourceTiming(e, c, m, Head(list), now, b),
                        Tail(list), now, b)

\* ----------------------------------------------------- stopBandwidthTracking
\* stopBandwidthTracking without its final flush.
stopWithoutFlush(e, c, m, now, b) ==
  Return([m EXCEPT !.bandwidthObserver = FALSE, !.bandwidthIntervalId = FALSE],
         "void")

\* stopBandwidthTracking without clearInterval.
stopKeepsTimer(e, c, m, now, b) ==
  flushBandwidthBatch(e, c, [m EXCEPT !.bandwidthObserver = FALSE], now, b)

stopBandwidthTracking(e, c, m, now, b) ==
  flushBandwidthBatch(e, c,
    [m EXCEPT !.bandwidthObserver = FALSE, !.bandwidthIntervalId = FALSE],
    now, b)

\* ------------------------------------------------------- constructor
\* initBandwidthTracking without its environment check.
initBandwidthTrackingUnguarded(e, m) ==
  [m EXCEPT !.bandwidthObserver = TRUE, !.bandwidthIntervalId = TRUE]

initBandwidthTracking(e, m) ==
  IF ~e.window \/ ~e.PerformanceObserver THEN m
  ELSE [m EXCEPT !.bandwidthObserver = TRUE, !.bandwidthIntervalId = TRUE]

\* new BlipLogs(config) throws without a projectId, and without an apiKey
\* outside a browser.
ConstructorThrows(e, c) ==
  c.projectId = "" \/ (~e.window /\ c.apiKey = Undefined)

constructor(e, c) ==
  IF ConstructorThrows(e, c)
  THEN [MemInit EXCEPT !.threw = TRUE, !.ret = "threw"]
  ELSE IF c.trackBandwidth THEN initBandwidthTracking(e, MemInit)
  ELSE MemInit

\* ================================================================== actions
NoOutcome == [rejected |-> FALSE, status |-> 0]
Op(name, event, level, kind, outcome) ==
  [op |-> name, event |-> event, level |-> level, kind |-> kind,
   outcome |-> outcome]

Beacons == [1..MaxList -> BeaconOutcomes]
Deltas == {1, SESSION_TIMEOUT, SESSION_TIMEOUT + 1}

Bounded(m) == Len(m.network) <= MaxPending /\ m.uuids <= MaxUuids

InitWith(E, C, t0) ==
  /\ env \in E
  /\ cfg \in C
  /\ ~ConstructorThrows(env, cfg)
  /\ clock = t0
  /\ ticks = 0
  /\ observed = 0
  /\ mem = constructor(env, cfg)
  /\ visibilityListener = (mem.bandwidthObserver /\ env.document)
  /\ out = Op("constructor", "", "info", "none", NoOutcome)
  /\ peer = NoPeer
  /\ globalInstance = "null"

\* instance.track(event, metadata, level); the clock may advance by d between
\* the Date.now() and the new Date() of one call.
\* f is what sessionStorage and crypto do during the call.
Track(event, level, d, b, f) ==
  /\ ticks + d <= MaxTicks
  /\ event = "" => d = 0
  /\ LET m == track(env, cfg, BeginWith(mem, f), event, level,
                    clock, clock + d, b)
     IN Bounded(m) /\ mem' = m
  /\ clock' = clock + d
  /\ ticks' = ticks + d
  /\ out' = Op("track", event, level, "none", NoOutcome)
  /\ UNCHANGED <<env, cfg, observed, visibilityListener, peer, globalInstance>>

\* instance.info(event), instance.warn(event), instance.error(event)
LevelCall(method, event, b) ==
  /\ LET m0 == Begin(mem)
         m == CASE method = "info" -> info(env, cfg, m0, event, clock, clock, b)
                [] method = "warn" -> warn(env, cfg, m0, event, clock, clock, b)
                [] method = "error" ->
                     error(env, cfg, m0, event, clock, clock, b)
     IN Bounded(m) /\ mem' = m
  /\ out' = Op(method, event, method, "none", NoOutcome)
  /\ UNCHANGED <<env, cfg, clock, ticks, observed, visibilityListener, peer,
               globalInstance>>

\* The PerformanceObserver delivers the next Len(list) resource entries.
Observe(list, b, f) ==
  /\ mem.bandwidthObserver
  /\ observed + Len(list) <= MaxObs
  /\ \A i \in 1..Len(list) : list[i].startTime = observed + i
  /\ LET m == observerCallback(env, cfg, BeginWith(mem, f), list, clock, b)
     IN Bounded(m) /\ mem' = m
  /\ observed' = observed + Len(list)
  /\ out' = Op("observe", "", "info", "none", NoOutcome)
  /\ UNCHANGED <<env, cfg, clock, ticks, visibilityListener, peer, globalInstance>>

\* setInterval(() => this.flushBandwidthBatch(), batchInterval)
TimerFires(b, f) ==
  /\ mem.bandwidthIntervalId
  /\ LET m == flushBandwidthBatch(env, cfg, BeginWith(mem, f), clock, b)
     IN Bounded(m) /\ mem' = m
  /\ out' = Op("timer", "", "info", "none", NoOutcome)
  /\ UNCHANGED <<env, cfg, clock, ticks, observed, visibilityListener, peer,
               globalInstance>>

\* A visibilitychange listener that flushes whatever the new state is.
VisibilityChangeAnyState(visibilityState, b) ==
  /\ visibilityListener
  /\ LET m == flushBandwidthBatch(env, cfg, Begin(mem), clock, b)
     IN Bounded(m) /\ mem' = m
  /\ out' = Op("visibilitychange", visibilityState, "info", "none", NoOutcome)
  /\ UNCHANGED <<env, cfg, clock, ticks, observed, visibilityListener, peer,
               globalInstance>>

\* document's visibilitychange listener
VisibilityChange(visibilityState, b) ==
  /\ visibilityListener
  /\ LET m == IF visibilityState = "hidden"
               THEN flushBandwidthBatch(env, cfg, Begin(mem), clock, b)
               ELSE Begin(mem)
     IN Bounded(m) /\ mem' = m
  /\ out' = Op("visibilitychange", visibilityState, "info", "none", NoOutcome)
  /\ UNCHANGED <<env, cfg, clock, ticks, observed, visibilityListener, peer,
               globalInstance>>

\* instance.stopBandwidthTracking()
Stop(b) ==
  /\ LET m == stopBandwidthTracking(env, cfg, Begin(mem), clock, b)
     IN Bounded(m) /\ mem' = m
  /\ out' = Op("stop", "", "info", "none", NoOutcome)
  /\ UNCHANGED <<env, cfg, clock, ticks, observed, visibilityListener, peer,
               globalInstance>>

\* The i-th fetch in flight settles and its continuation runs.
RemoveAt(seq, i) == SubSeq(seq, 1, i - 1) \o SubSeq(seq, i + 1, Len(seq))

FetchSettles(i, outcome) ==
  /\ i \in 1..Len(mem.network)
  /\ LET kind == mem.network[i]
         m == [Begin(mem) EXCEPT !.network = RemoveAt(@, i)]
     IN /\ mem' = IF kind = "events" THEN eventContinuation(cfg, m, outcome)
                  ELSE bandwidthContinuation(cfg, m, outcome)
        /\ out' = Op("settle", "", "info", kind, outcome)
  /\ UNCHANGED <<env, cfg, clock, ticks, observed, visibilityListener, peer,
               globalInstance>>

Tick(d) ==
  /\ ticks < MaxTicks
  /\ clock' = clock + d
  /\ ticks' = ticks + 1
  /\ UNCHANGED <<env, cfg, observed, visibilityListener, mem, out, peer,
               globalInstance>>

\* What the sendBeacon calls of one handler run do; it matters only where
\* navigator.sendBeacon exists.
\* A handler run that sends at most sends payloads makes at most that many calls.
BeaconChoices(sends) ==
  IF env.navigator = "beacon"
  THEN {b \in Beacons : \A k \in 1..MaxList : k > sends => b[k] = "false"}
  ELSE {[k \in 1..MaxList |-> "false"]}
ObservedLists ==
  UNION {[1..len -> UNION {Entries(n) : n \in 1..MaxObs}] : len \in 1..MaxList}

\* ------------------------------------------------------------ Spec
\* One instance with the default privacy settings and bandwidth tracking
\* switched on, in every environment, at a fixed time of day.
StartClock == 1000

\* Configurations with a projectId and the bandwidth defaults: no allow-list,
\* resource URLs sanitized.
PlainConfigs ==
  {c \in Configs : c.projectId = ProjectId /\ c.resourceTypes = {}
                   /\ c.sanitizeUrls}
DeliveryConfigs ==
  {c \in PlainConfigs : /\ c.collectUrl /\ c.collectReferrer /\ c.collectUserAgent
                   /\ c.collectSessionId /\ c.trackBandwidth
                   /\ c.maxBatchSize = BatchSize}
\* Every combination of capabilities, on one page reached from another.
DeliveryEnvs == {e \in Envs : e.href = PageUrl /\ e.referrer = ReferrerUrl}

Init == InitWith(DeliveryEnvs, DeliveryConfigs, StartClock)

Next ==
  \/ \E event \in Events, b \in BeaconChoices(1) :
       Track(event, "info", 0, b, "none")
  \/ \E list \in ObservedLists, b \in BeaconChoices(MaxList) :
       Observe(list, b, "none")
  \/ \E b \in BeaconChoices(1) : TimerFires(b, "none")
  \/ \E visibilityState \in {"hidden", "visible"}, b \in BeaconChoices(1) :
       VisibilityChange(visibilityState, b)
  \/ \E b \in BeaconChoices(1) : Stop(b)
  \/ \E i \in 1..MaxPending, outcome \in FetchOutcomes : FetchSettles(i, outcome)

Spec == Init /\ [][Next]_vars

\* ----------------------------------------------------------- SpecSession
\* One instance in a browser with sessionStorage, while the clock advances;
\* every sendBeacon call accepts its payload.
SessionEnvs ==
  {e \in DeliveryEnvs : /\ e.window /\ e.document /\ e.sessionStorage /\ e.fetch
                /\ e.navigator = "beacon"}
SessionConfigs ==
  {c \in DeliveryConfigs :
     c.apiKey = Undefined /\ ~c.debug /\ c.onError = "none"}

InitSession ==
  \E t0 \in {0, StartClock} : InitWith(SessionEnvs, SessionConfigs, t0)

Accepting == [k \in 1..MaxList |-> "true"]

NextSession ==
  \/ \E event \in Events : Track(event, "info", 0, Accepting, "none")
  \/ \E d \in Deltas : Tick(d)
  \/ \E list \in ObservedLists : Observe(list, Accepting, "none")
  \/ TimerFires(Accepting, "none")
  \/ Stop(Accepting)

SpecSession == InitSession /\ [][NextSession]_vars

\* ----------------------------------------------------------- SpecStorage
\* One instance, with and without session collection, in environments with
\* and without window, document, navigator and sessionStorage, where any
\* sessionStorage or crypto call of a run may throw; sendBeacon, where it
\* exists, accepts every bandwidth batch.
StorageEnvs ==
  {e \in DeliveryEnvs :
     e.fetch /\ e.PerformanceObserver /\ e.navigator # "noBeacon"}
StorageConfigs ==
  {c \in PlainConfigs : /\ c.collectUrl /\ c.collectReferrer /\ c.collectUserAgent
                   /\ c.trackBandwidth /\ c.maxBatchSize = BatchSize
                   /\ c.apiKey = "sk_secret" /\ ~c.debug /\ c.onError = "none"}
Settlements == {Rejected, Response(200)}

InitStorage == InitWith(StorageEnvs, StorageConfigs, StartClock)

NextStorage ==
  \/ \E event \in Events, b \in BeaconChoices(1), f \in StorageFaults :
       Track(event, "info", 0, b, f)
  \/ \E list \in ObservedLists, f \in StorageFaults : Observe(list, Accepting, f)
  \/ \E f \in StorageFaults : TimerFires(Accepting, f)
  \/ \E i \in 1..MaxPending, outcome \in Settlements : FetchSettles(i, outcome)

SpecStorage == InitStorage /\ [][NextStorage]_vars

\* ----------------------------------------------------------- SpecContext
\* One instance under every combination of the url, referrer and user-agent
\* privacy flags, on pages with and without a location and a referrer, called
\* through track, info, warn and error while the clock may advance inside a
\* call.
ContextEnvs ==
  {e \in Envs : /\ e.fetch /\ e.sessionStorage /\ e.PerformanceObserver
                /\ e.navigator # "noBeacon"}
ContextConfigs ==
  {c \in PlainConfigs : /\ ~c.collectSessionId
                   /\ c.trackBandwidth /\ c.maxBatchSize = BatchSize
                   /\ c.apiKey = "sk_secret" /\ ~c.debug /\ c.onError = "none"}

InitContext == InitWith(ContextEnvs, ContextConfigs, StartClock)

NextContext ==
  \/ \E event \in Events, level \in Levels, d \in {0, 1} :
       Track(event, level, d, Accepting, "none")
  \/ \E method \in Levels, event \in Events : LevelCall(method, event, Accepting)
  \/ \E list \in ObservedLists : Observe(list, Accepting, "none")
  \/ TimerFires(Accepting, "none")
  \/ \E i \in 1..MaxPending : FetchSettles(i, Response(200))

SpecContext == InitContext /\ [][NextContext]_vars

\* ------------------------------------------------------------- SpecBatch
\* One instance with bandwidth tracking switched on or off and a batch size
\* of one or more, in environments with and without window, document and
\* PerformanceObserver, with navigator.sendBeacon or without navigator.
BatchEnvs ==
  {e \in DeliveryEnvs : e.fetch /\ e.sessionStorage /\ e.navigator # "noBeacon"}
BatchConfigs ==
  {c \in PlainConfigs : /\ c.collectUrl /\ c.collectReferrer /\ c.collectUserAgent
                   /\ c.collectSessionId
                   /\ c.apiKey = "sk_secret" /\ ~c.debug /\ c.onError = "none"}

InitBatch == InitWith(BatchEnvs, BatchConfigs, StartClock)

NextBatch ==
  \/ \E list \in ObservedLists, b \in BeaconChoices(MaxList) :
       Observe(list, b, "none")
  \/ \E b \in BeaconChoices(1) : TimerFires(b, "none")
  \/ \E visibilityState \in {"hidden", "visible"}, b \in BeaconChoices(1) :
       VisibilityChange(visibilityState, b)
  \/ \E b \in BeaconChoices(1) : Stop(b)
  \/ \E b \in BeaconChoices(1) : Track("signup", "info", 0, b, "none")
  \/ \E i \in 1..MaxPending, outcome \in Settlements : FetchSettles(i, outcome)

SpecBatch == InitBatch /\ [][NextBatch]_vars

\* ------------------------------------------------------------- SpecTimer
\* The batcher with a timer that keeps firing: setInterval runs its callback
\* again and again until clearInterval, so a timer firing that would change
\* the state cannot stay due forever.  sendBeacon accepts every batch, and
\* privacy.collectSessionId is off: the session plays no part in the timer.
TimerEnvs == {e \in BatchEnvs : e.navigator = "beacon"}
TimerConfigs ==
  {c \in Configs : /\ c.projectId = ProjectId /\ c.resourceTypes = {}
                   /\ c.sanitizeUrls
                   /\ c.collectUrl /\ c.collectReferrer /\ c.collectUserAgent
                   /\ ~c.collectSessionId
                   /\ c.apiKey = "sk_secret" /\ ~c.debug /\ c.onError = "none"}

InitTimer == InitWith(TimerEnvs, TimerConfigs, StartClock)

NextTimer ==
  \/ \E list \in ObservedLists : Observe(list, Accepting, "none")
  \/ TimerFires(Accepting, "none")
  \/ \E visibilityState \in {"hidden", "visible"} :
       VisibilityChange(visibilityState, Accepting)
  \/ Stop(Accepting)
  \/ Track("signup", "info", 0, Accepting, "none")

SpecTimer ==
  InitTimer /\ [][NextTimer]_vars /\ WF_vars(TimerFires(Accepting, "none"))

\* ------------------------------------------------------------ SpecShared
\* Two instances with the same configuration on one page: they share
\* sessionStorage, crypto and the clock and keep their own observer, timer
\* and buffer.  Handlers run to completion, so the instances interleave
\* between handler runs.
SharedEnvs == {e \in SessionEnvs : e.PerformanceObserver}

InitShared ==
  /\ env \in SharedEnvs
  /\ cfg \in SessionConfigs
  /\ clock \in {0, StartClock}
  /\ ticks = 0
  /\ observed = 0
  /\ mem = constructor(env, cfg)
  /\ visibilityListener = (mem.bandwidthObserver /\ env.document)
  /\ out = Op("constructor", "", "info", "none", NoOutcome)
  /\ peer = Private(constructor(env, cfg))
  /\ globalInstance = "null"

\* A handler of the second instance has run from m0 to m: the page keeps what
\* is shared, and each instance keeps its own fields.
PeerRan(m0, m) ==
  /\ Bounded(m)
  /\ mem' = WithPrivate(m, Private(m0))
  /\ peer' = Private(m)

\* The second instance's track(event).
PeerTrack(event, b) ==
  /\ PeerRan(mem, track(env, cfg, WithPrivate(Begin(mem), peer), event, "info",
                        clock, clock, b))
  /\ out' = Op("peer.track", event, "info", "none", NoOutcome)
  /\ UNCHANGED <<env, cfg, clock, ticks, observed, visibilityListener,
               globalInstance>>

\* The second instance's PerformanceObserver callback.
PeerObserve(list, b) ==
  /\ peer.bandwidthObserver
  /\ observed + Len(list) <= MaxObs
  /\ \A i \in 1..Len(list) : list[i].startTime = observed + i
  /\ PeerRan(mem, observerCallback(env, cfg, WithPrivate(Begin(mem), peer),
                                   list, clock, b))
  /\ observed' = observed + Len(list)
  /\ out' = Op("peer.observe", "", "info", "none", NoOutcome)
  /\ UNCHANGED <<env, cfg, clock, ticks, visibilityListener, globalInstance>>

\* The second instance's timer.
PeerTimerFires(b) ==
  /\ peer.bandwidthIntervalId
  /\ PeerRan(mem, flushBandwidthBatch(env, cfg, WithPrivate(Begin(mem), peer),
                                      clock, b))
  /\ out' = Op("peer.timer", "", "info", "none", NoOutcome)
  /\ UNCHANGED <<env, cfg, clock, ticks, observed, visibilityListener,
               globalInstance>>

NextShared ==
  \/ Track("signup", "info", 0, Accepting, "none")
  \/ PeerTrack("signup", Accepting)
  \/ \E d \in Deltas : Tick(d)
  \/ \E list \in ObservedLists : Observe(list, Accepting, "none")
  \/ \E list \in ObservedLists : PeerObserve(list, Accepting)
  \/ TimerFires(Accepting, "none")
  \/ PeerTimerFires(Accepting)

SpecShared == InitShared /\ [][NextShared]_vars

\* ------------------------------------------------------------ SpecFilter
\* An Active instance with and without a resource-type allow-list and with
\* URL sanitization on and off; the observer delivers entries of a listed
\* type, of an unlisted type and without a type, for resources with and
\* without a query string and a fragment.  navigator.sendBeacon exists and
\* accepts every batch.
TaggedTypes == {"script", "img", ""}
PlainResourceUrl ==
  Url("absolute", "https://cdn.example/logo.png", FALSE, <<>>, "")
FilterNames == {ResourceUrl, PlainResourceUrl}
TaggedEntries(n) ==
  [name : FilterNames, initiatorType : TaggedTypes,
   transferSize : TransferSizes, startTime : {n}]
FilterLists ==
  UNION {[1..len -> UNION {TaggedEntries(n) : n \in 1..MaxObs}] :
           len \in 1..MaxList}

FilterEnvs == {e \in TimerEnvs : e.window /\ e.PerformanceObserver}
FilterConfigs ==
  {c \in Configs : /\ c.projectId = ProjectId /\ c.apiKey = "sk_secret"
                   /\ ~c.debug /\ c.onError = "none"
                   /\ c.collectUrl /\ c.collectReferrer /\ c.collectUserAgent
                   /\ c.collectSessionId /\ c.trackBandwidth}

InitFilter == InitWith(FilterEnvs, FilterConfigs, StartClock)

NextFilter ==
  \/ \E list \in FilterLists : Observe(list, Accepting, "none")
  \/ TimerFires(Accepting, "none")
  \/ Stop(Accepting)

SpecFilter == InitFilter /\ [][NextFilter]_vars

\* --------------------------------------------------------- SpecConstruct
\* new BlipLogs(config) with and without projectId and apiKey, in and outside
\* a browser, followed, where the constructor returned an instance, by calls
\* on it and by its callbacks.
ConstructEnvs == BatchEnvs
ConstructConfigs ==
  {c \in Configs : /\ c.resourceTypes = {} /\ c.sanitizeUrls
                   /\ ~c.debug /\ c.onError = "none"
                   /\ c.collectUrl /\ c.collectSessionId
                   /\ c.maxBatchSize = BatchSize}

InitConstruct ==
  /\ env \in ConstructEnvs
  /\ cfg \in ConstructConfigs
  /\ clock = StartClock
  /\ ticks = 0
  /\ observed = 0
  /\ mem = constructor(env, cfg)
  /\ visibilityListener = (mem.bandwidthObserver /\ env.document)
  /\ out = Op("constructor", "", "info", "none", NoOutcome)
  /\ peer = NoPeer
  /\ globalInstance = "null"

\* The constructor returned: there is an instance to call.
Constructed == ~ConstructorThrows(env, cfg)

NextConstruct ==
  \/ Constructed /\ Track("signup", "info", 0, Accepting, "none")
  \/ Constructed /\ \E list \in ObservedLists : Observe(list, Accepting, "none")
  \/ Constructed /\ TimerFires(Accepting, "none")
  \/ Constructed /\ \E visibilityState \in {"hidden", "visible"} :
                       VisibilityChange(visibilityState, Accepting)
  \/ Constructed /\ Stop(Accepting)

SpecConstruct == InitConstruct /\ [][NextConstruct]_vars

\* ---------------------------------------------------------- SpecSanitize
\* sanitizeUrl and sanitizeResourceUrl applied to one string: undefined, the
\* empty string, a URL that new URL() accepts or a string it rejects, with up
\* to MaxQuery query parameters, sensitive and not, in lower and in mixed
\* case, with and without a fragment.
MaxQuery == 2
ParamKeys == {"token", "Token", "key", "q"}
ParamValues == {"abc", "shoes"}
Params == [key : ParamKeys, value : ParamValues]
Queries == UNION {[1..len -> Params] : len \in 0..MaxQuery}
Fragments == {"", "main"}
SanitizeInputs ==
  {UndefinedUrl, EmptyUrl}
    \cup {Url("absolute", "https://shop.example/cart", query # <<>>, query, hash) :
            query \in Queries, hash \in Fragments}
    \cup {Url("other", "/cart", query # <<>>, query, hash) :
            query \in Queries, hash \in Fragments}

Applied(name, url, result) == [op |-> name, url |-> url, result |-> result]

InitSanitize ==
  /\ env \in {e \in BatchEnvs : ~e.window}
  /\ cfg \in {c \in BatchConfigs : ~c.trackBandwidth /\ c.maxBatchSize = 1}
  /\ clock = StartClock
  /\ ticks = 0
  /\ observed = 0
  /\ mem = constructor(env, cfg)
  /\ visibilityListener = FALSE
  /\ peer = NoPeer
  /\ globalInstance = "null"
  /\ \E url \in SanitizeInputs : out = Applied("input", url, UndefinedUrl)

SanitizeUrl ==
  /\ out.op = "input"
  /\ out' = Applied("sanitizeUrl", out.url, sanitizeUrl(out.url))
  /\ UNCHANGED <<env, cfg, clock, ticks, observed, visibilityListener, mem,
                 peer, globalInstance>>

SanitizeResourceUrl ==
  /\ out.op = "input"
  /\ out.url.kind # "undefined"
  /\ out' = Applied("sanitizeResourceUrl", out.url,
                    sanitizeResourceUrl(out.url))
  /\ UNCHANGED <<env, cfg, clock, ticks, observed, visibilityListener, mem,
                 peer, globalInstance>>

NextSanitize == SanitizeUrl \/ SanitizeResourceUrl

SpecSanitize == InitSanitize /\ [][NextSanitize]_vars

\* --------------------------------------------------------- parseUserAgent
\* A user-agent string is a sequence of words.  frags are the lower-case
\* alternatives of the function's regular expressions that occur in the word
\* (all of them are tested with the i flag); product and version are what
\* stands before and after a "/" in it.
Word(text, frags, product, version) ==
  [text |-> text, frags |-> frags, product |-> product, version |-> version]
UaWords ==
  {Word("Googlebot/2.1", {"googlebot", "bot"}, "googlebot", "2.1"),
   Word("bingbot/2.0", {"bingbot", "bot"}, "bingbot", "2.0"),
   Word("crawler", {"crawl"}, "", ""),
   Word("Chrome/120", {"chrome"}, "chrome", "120"),
   Word("Safari/605", {"safari"}, "safari", "605"),
   Word("Windows NT 10.0", {"windows", "windows nt 10"}, "", ""),
   Word("Android", {"android"}, "", ""),
   Word("Mobile", {"mobile"}, "", "")}
MaxUa == 3
UserAgents == UNION {[1..len -> UaWords] : len \in 0..MaxUa}

Pattern(alts, name) == [alts |-> alts, name |-> name]
BOT_PATTERNS ==
  <<Pattern({"googlebot"}, "Googlebot"),
    Pattern({"bingbot"}, "Bingbot"),
    Pattern({"slurp"}, "Yahoo Slurp"),
    Pattern({"duckduckbot"}, "DuckDuckBot"),
    Pattern({"baiduspider"}, "Baiduspider"),
    Pattern({"yandexbot"}, "YandexBot"),
    Pattern({"facebot", "facebookexternalhit"}, "Facebook Bot"),
    Pattern({"twitterbot"}, "Twitter Bot"),
    Pattern({"linkedinbot"}, "LinkedIn Bot"),
    Pattern({"slackbot"}, "Slackbot"),
    Pattern({"telegrambot"}, "Telegram Bot"),
    Pattern({"discordbot"}, "Discord Bot"),
    Pattern({"whatsapp"}, "WhatsApp"),
    Pattern({"applebot"}, "Applebot"),
    Pattern({"semrushbot"}, "SEMrush Bot"),
    Pattern({"ahrefsbot"}, "Ahrefs Bot"),
    Pattern({"mj12bot"}, "Majestic Bot"),
    Pattern({"dotbot"}, "DotBot"),
    Pattern({"petalbot"}, "PetalBot"),
    Pattern({"bytespider"}, "ByteSpider"),
    Pattern({"gptbot"}, "GPTBot"),
    Pattern({"claudebot"}, "ClaudeBot"),
    Pattern({"headless"}, "Headless Browser"),
    Pattern({"phantomjs"}, "PhantomJS"),
    Pattern({"lighthouse"}, "Lighthouse"),
    Pattern({"pagespeed"}, "PageSpeed Insights"),
    Pattern({"crawl", "spider", "bot", "scrape"}, "Generic Bot")>>

\* /a|b/i.test(ua)
Test(alts, ua) == \E i \in 1..Len(ua) : ua[i].frags \cap alts # {}
\* ua.match(/(?:a|b)\/(\d+[\d.]*)/i)?.[1] || '': the version of the leftmost
\* word whose product is one of the alternatives
Versioned(products, ua) ==
  {i \in 1..Len(ua) : ua[i].product \in products /\ ua[i].version # ""}
Capture(products, ua) ==
  IF Versioned(products, ua) = {} THEN ""
  ELSE ua[CHOOSE i \in Versioned(products, ua) :
            \A j \in Versioned(products, ua) : i <= j].version

ParsedDefault(ua) ==
  [browser |-> "Unknown", browserVersion |-> "", os |-> "Unknown",
   isBot |-> FALSE, botName |-> Undefined, deviceType |-> "unknown",
   raw |-> ua]

DetectBrowser(result, ua) ==
  IF Test({"edg"}, ua)
  THEN [result EXCEPT !.browser = "Edge",
                      !.browserVersion = Capture({"edg", "edge"}, ua)]
  ELSE IF Test({"opr", "opera"}, ua)
  THEN [result EXCEPT !.browser = "Opera",
                      !.browserVersion = Capture({"opr", "opera"}, ua)]
  ELSE IF Test({"chrome", "chromium", "crios"}, ua)
  THEN [result EXCEPT !.browser = "Chrome",
                      !.browserVersion =
                         Capture({"chrome", "chromium", "crios"}, ua)]
  ELSE IF Test({"firefox", "fxios"}, ua)
  THEN [result EXCEPT !.browser = "Firefox",
                      !.browserVersion = Capture({"firefox", "fxios"}, ua)]
  ELSE IF Test({"safari"}, ua) /\ ~Test({"chrome"}, ua)
  THEN [result EXCEPT !.browser = "Safari",
                      !.browserVersion = Capture({"version"}, ua)]
  ELSE IF Test({"msie", "trident"}, ua)
  THEN [result EXCEPT !.browser = "Internet Explorer",
                      !.browserVersion = Capture({"msie", "rv"}, ua)]
  ELSE result

DetectOs(result, ua) ==
  IF Test({"windows"}, ua)
  THEN [result EXCEPT !.os =
          IF Test({"windows nt 10"}, ua) THEN "Windows 10/11"
          ELSE IF Test({"windows nt 6.3"}, ua) THEN "Windows 8.1"
          ELSE IF Test({"windows nt 6.2"}, ua) THEN "Windows 8"
          ELSE IF Test({"windows nt 6.1"}, ua) THEN "Windows 7"
          ELSE "Windows"]
  ELSE IF Test({"macintosh", "mac os x"}, ua) THEN [result EXCEPT !.os = "macOS"]
  ELSE IF Test({"iphone"}, ua) THEN [result EXCEPT !.os = "iOS"]
  ELSE IF Test({"ipad"}, ua) THEN [result EXCEPT !.os = "iPadOS"]
  ELSE IF Test({"android"}, ua) THEN [result EXCEPT !.os = "Android"]
  ELSE IF Test({"linux"}, ua) THEN [result EXCEPT !.os = "Linux"]
  ELSE IF Test({"cros"}, ua) THEN [result EXCEPT !.os = "Chrome OS"]
  ELSE result

\* android.*mobile contains mobile, and android(?!.*mobile) is tested only
\* when mobile occurs nowhere, so each is one more alternative.
DetectDevice(result, ua) ==
  IF Test({"mobile", "iphone", "ipod", "webos", "blackberry", "opera mini",
           "opera mobi", "iemobile"}, ua)
  THEN [result EXCEPT !.deviceType = "mobile"]
  ELSE IF Test({"tablet", "ipad", "android", "kindle", "silk"}, ua)
  THEN [result EXCEPT !.deviceType = "tablet"]
  ELSE IF Test({"windows", "macintosh", "linux", "cros"}, ua)
  THEN [result EXCEPT !.deviceType = "desktop"]
  ELSE result

\* The index of the first pattern of BOT_PATTERNS that matches; 0 when none.
FirstBot(ua) ==
  IF \A i \in 1..Len(BOT_PATTERNS) : ~Test(BOT_PATTERNS[i].alts, ua) THEN 0
  ELSE CHOOSE i \in 1..Len(BOT_PATTERNS) :
         /\ Test(BOT_PATTERNS[i].alts, ua)
         /\ \A j \in 1..(i - 1) : ~Test(BOT_PATTERNS[j].alts, ua)

\* parseUserAgent that marks the bot and goes on to the other detections.
parseUserAgentNoReturn(ua) ==
  IF ua = <<>> THEN ParsedDefault(ua)
  ELSE LET name == BOT_PATTERNS[FirstBot(ua)].name
           result == IF FirstBot(ua) = 0 THEN ParsedDefault(ua)
                     ELSE [ParsedDefault(ua) EXCEPT !.isBot = TRUE,
                                                    !.botName = name,
                                                    !.browser = name]
       IN DetectDevice(DetectOs(DetectBrowser(result, ua), ua), ua)

parseUserAgent(ua) ==
  IF ua = <<>> THEN ParsedDefault(ua)
  ELSE IF FirstBot(ua) # 0
  THEN LET name == BOT_PATTERNS[FirstBot(ua)].name
       IN [ParsedDefault(ua) EXCEPT !.isBot = TRUE, !.botName = name,
                                    !.browser = name]
  ELSE DetectDevice(DetectOs(DetectBrowser(ParsedDefault(ua), ua), ua), ua)

\* --------------------------------------------------------- SpecUserAgent
\* parseUserAgent applied to one user-agent string of up to MaxUa words: bot
\* names, browser, operating system and device words in every order.
Parsed(name, ua, result) == [op |-> name, ua |-> ua, result |-> result]

InitUserAgent ==
  /\ env \in {e \in TimerEnvs : e.window /\ e.document /\ e.PerformanceObserver}
  /\ cfg \in {c \in BatchConfigs : c.trackBandwidth /\ c.maxBatchSize = 1}
  /\ clock = StartClock
  /\ ticks = 0
  /\ observed = 0
  /\ mem = constructor(env, cfg)
  /\ visibilityListener = TRUE
  /\ peer = NoPeer
  /\ globalInstance = "null"
  /\ \E ua \in UserAgents : out = Parsed("input", ua, ParsedDefault(<<>>))

ParseUserAgent ==
  /\ out.op = "input"
  /\ out' = Parsed("parseUserAgent", out.ua, parseUserAgent(out.ua))
  /\ UNCHANGED <<env, cfg, clock, ticks, observed, visibilityListener, mem,
                 peer, globalInstance>>

NextUserAgent == ParseUserAgent

SpecUserAgent == InitUserAgent /\ [][NextUserAgent]_vars

\* ----------------------------------------------------------- SpecEnabled
\* config.trackBandwidth as the caller writes it: left out, a boolean, or an
\* object whose enabled field is left out or a boolean.
RawOption(kind, enabled) == [kind |-> kind, enabled |-> enabled]
TrackBandwidthOptions ==
  {RawOption("undefined", Undefined)}
    \cup {RawOption("boolean", enabled) : enabled \in {"true", "false"}}
    \cup {RawOption("object", enabled) :
            enabled \in {Undefined, "true", "false"}}

\* config.trackBandwidth === true ||
\*   (typeof config.trackBandwidth === 'object' && enabled !== false)
bandwidthEnabled(trackBandwidth) ==
  \/ (trackBandwidth.kind = "boolean" /\ trackBandwidth.enabled = "true")
  \/ (trackBandwidth.kind = "object" /\ trackBandwidth.enabled # "false")

Configured(trackBandwidth) ==
  [op |-> "constructor", trackBandwidth |-> trackBandwidth]

InitEnabled ==
  /\ env \in BatchEnvs
  /\ \E trackBandwidth \in TrackBandwidthOptions :
       /\ cfg \in {c \in BatchConfigs :
                     c.trackBandwidth = bandwidthEnabled(trackBandwidth)}
       /\ out = Configured(trackBandwidth)
  /\ clock = StartClock
  /\ ticks = 0
  /\ observed = 0
  /\ mem = constructor(env, cfg)
  /\ visibilityListener = (mem.bandwidthObserver /\ env.document)
  /\ peer = NoPeer
  /\ globalInstance = "null"

NextEnabled ==
  \/ \E list \in ObservedLists : Observe(list, Accepting, "none")
  \/ TimerFires(Accepting, "none")
  \/ Stop(Accepting)

SpecEnabled == InitEnabled /\ [][NextEnabled]_vars

\* ------------------------------------------------------------- SpecFlush
\* The batcher running in a browser, fed resources of different sizes, with
\* every transport: sendBeacon that accepts, refuses or throws, fetch that
\* resolves or rejects, and neither.
ResourceSizes == {0, 7, 9}
SizedEntries(n) ==
  [name : ResourceNames, initiatorType : InitiatorTypes,
   transferSize : ResourceSizes, startTime : {n}]
SizedLists ==
  UNION {[1..len -> UNION {SizedEntries(n) : n \in 1..MaxObs}] :
           len \in 1..MaxList}

FlushEnvs ==
  {e \in DeliveryEnvs : e.window /\ e.PerformanceObserver /\ e.sessionStorage}
FlushConfigs == {c \in BatchConfigs : c.trackBandwidth}

InitFlush == InitWith(FlushEnvs, FlushConfigs, StartClock)

NextFlush ==
  \/ \E list \in SizedLists, b \in BeaconChoices(MaxList) :
       Observe(list, b, "none")
  \/ \E b \in BeaconChoices(1) : TimerFires(b, "none")
  \/ \E visibilityState \in {"hidden", "visible"}, b \in BeaconChoices(1) :
       VisibilityChange(visibilityState, b)
  \/ \E b \in BeaconChoices(1) : Stop(b)
  \/ \E i \in 1..MaxPending, outcome \in Settlements : FetchSettles(i, outcome)

SpecFlush == InitFlush /\ [][NextFlush]_vars

\* ------------------------------------------------------------ SpecStored
\* One instance in a browser tab whose sessionStorage already holds what an
\* earlier page load, or another script of the page, left under the two
\* session keys: no id or an id, and a timestamp that is missing, is no
\* number ('x'), is '0', starts with a digit ('1x'), or is a recent time.
StoredIds == {NoId, 1}
StoredTimestamps ==
  {<<>>, <<-1>>, <<0>>, <<1, -1>>, ToDigits(StartClock - 1)}
StoredRecords == [id : StoredIds, ts : StoredTimestamps]

StoredEnvs == {e \in SessionEnvs : e.PerformanceObserver}
StoredConfigs ==
  {c \in BatchConfigs : c.trackBandwidth /\ c.maxBatchSize = BatchSize}

InitStored ==
  /\ env \in StoredEnvs
  /\ cfg \in StoredConfigs
  /\ clock = StartClock
  /\ ticks = 0
  /\ observed = 0
  /\ \E stored \in StoredRecords :
       mem = [constructor(env, cfg) EXCEPT
                !.storage = stored,
                !.uuids = IF stored.id = NoId THEN 0 ELSE stored.id]
  /\ visibilityListener = (mem.bandwidthObserver /\ env.document)
  /\ out = Op("constructor", "", "info", "none", NoOutcome)
  /\ peer = NoPeer
  /\ globalInstance = "null"

NextStored ==
  \/ Track("signup", "info", 0, Accepting, "none")
  \/ \E d \in Deltas : Tick(d)
  \/ \E list \in ObservedLists : Observe(list, Accepting, "none")
  \/ TimerFires(Accepting, "none")
  \/ \E visibilityState \in {"hidden", "visible"} :
       VisibilityChange(visibilityState, Accepting)
  \/ Stop(Accepting)

SpecStored == InitStored /\ [][NextStored]_vars

\* ------------------------------------------------------------ SpecGlobal
\* A page that uses the static API only: BlipLogs.configure up to two times,
\* the static track, info, warn, error and stopBandwidthTracking at any time,
\* and the observer and timer callbacks of every instance configure has
\* constructed.  mem carries the fields of the first instance, peer those of
\* the second.
GlobalEnvs == TimerEnvs
GlobalConfigs == TimerConfigs

InitGlobal ==
  /\ env \in GlobalEnvs
  /\ cfg \in GlobalConfigs
  /\ clock = StartClock
  /\ ticks = 0
  /\ observed = 0
  /\ mem = MemInit
  /\ visibilityListener = FALSE
  /\ out = Op("load", "", "info", "none", NoOutcome)
  /\ peer = NoPeer
  /\ globalInstance = "null"

\* configure that stops the instance it replaces.
ConfigureStopsPrevious ==
  /\ globalInstance # "peer"
  /\ ~ConstructorThrows(env, cfg)
  /\ IF globalInstance = "null"
     THEN /\ mem' = WithPrivate(Begin(mem), Private(constructor(env, cfg)))
          /\ visibilityListener' = (mem'.bandwidthObserver /\ env.document)
          /\ peer' = peer
          /\ globalInstance' = "mem"
     ELSE /\ mem' = [Begin(mem) EXCEPT !.bandwidthObserver = FALSE,
                                       !.bandwidthIntervalId = FALSE]
          /\ visibilityListener' = visibilityListener
          /\ peer' = Private(constructor(env, cfg))
          /\ globalInstance' = "peer"
  /\ out' = Op("configure", "", "info", "none", NoOutcome)
  /\ UNCHANGED <<env, cfg, clock, ticks, observed>>

\* BlipLogs.configure(config): BlipLogs.globalInstance = new BlipLogs(config)
Configure ==
  /\ globalInstance # "peer"
  /\ ~ConstructorThrows(env, cfg)
  /\ IF globalInstance = "null"
     THEN /\ mem' = WithPrivate(Begin(mem), Private(constructor(env, cfg)))
          /\ visibilityListener' = (mem'.bandwidthObserver /\ env.document)
          /\ peer' = peer
          /\ globalInstance' = "mem"
     ELSE /\ mem' = Begin(mem)
          /\ visibilityListener' = visibilityListener
          /\ peer' = Private(constructor(env, cfg))
          /\ globalInstance' = "peer"
  /\ out' = Op("configure", "", "info", "none", NoOutcome)
  /\ UNCHANGED <<env, cfg, clock, ticks, observed>>

\* BlipLogs.getInstance(): the page with the global instance at work.
getInstance ==
  IF globalInstance = "peer" THEN WithPrivate(Begin(mem), peer) ELSE Begin(mem)

\* BlipLogs.getInstance().method(...): getInstance throws while no instance
\* is configured; otherwise m is what the method makes of getInstance.
StaticCall(m, name, event) ==
  /\ CASE globalInstance = "null" ->
            /\ mem' = [Begin(mem) EXCEPT !.threw = TRUE, !.ret = "threw"]
            /\ peer' = peer
       [] globalInstance = "mem" ->
            /\ Bounded(m) /\ mem' = m
            /\ peer' = peer
       [] globalInstance = "peer" -> PeerRan(mem, m)
  /\ out' = Op(name, event, "info", "none", NoOutcome)
  /\ UNCHANGED <<env, cfg, clock, ticks, observed, visibilityListener,
                 globalInstance>>

StaticMethods == {"track", "info", "warn", "error"}
\* BlipLogs.track(event), BlipLogs.info(event), BlipLogs.warn(event),
\* BlipLogs.error(event)
StaticTrack(method, event, b) ==
  StaticCall(CASE method = "track" ->
                    track(env, cfg, getInstance, event, "info", clock, clock, b)
               [] method = "info" ->
                    info(env, cfg, getInstance, event, clock, clock, b)
               [] method = "warn" ->
                    warn(env, cfg, getInstance, event, clock, clock, b)
               [] method = "error" ->
                    error(env, cfg, getInstance, event, clock, clock, b),
             "static." \o method, event)

\* BlipLogs.stopBandwidthTracking()
StaticStop(b) ==
  StaticCall(stopBandwidthTracking(env, cfg, getInstance, clock, b),
             "static.stopBandwidthTracking", "")

NextGlobal ==
  \/ Configure
  \/ \E method \in StaticMethods : StaticTrack(method, "signup", Accepting)
  \/ StaticStop(Accepting)
  \/ \E list \in ObservedLists : Observe(list, Accepting, "none")
  \/ \E list \in ObservedLists : PeerObserve(list, Accepting)
  \/ TimerFires(Accepting, "none")
  \/ PeerTimerFires(Accepting)

SpecGlobal == InitGlobal /\ [][NextGlobal]_vars

\* =================================================================== claims
Failed(outcome) == outcome.rejected \/ ~ResponseOk(outcome.status)
Dispatched(m) == Len(Via(m, "fetch")) > 0
BeaconAccepted(m) ==
  \E i \in 1..Len(m.calls) :
    m.calls[i].via = "beacon" /\ m.calls[i].outcome = "true"

\* C1: a track call that dispatched a send returns true and reports nothing;
\* when the fetch it dispatched later rejects or gets a non-success response,
\* the continuation reports exactly one error through handleError and raises
\* nothing.
C1_TrackReturnsTrueOnDispatch ==
  /\ (out.op = "track" /\ (Dispatched(mem) \/ BeaconAccepted(mem)))
       => (mem.ret = "true" /\ ~mem.threw /\ mem.errors = <<>>)
  /\ (out.op = "settle" /\ out.kind = "events" /\ Failed(out.outcome))
       => (Len(mem.errors) = 1 /\ ~mem.threw /\ mem.ret # "threw"
           /\ (cfg.onError # "none" => mem.callback = mem.errors))

\* A fetch dispatched by track has rejected and the error channel has the
\* report.
C1_Witness ==
  /\ out.op = "settle" /\ out.kind = "events" /\ out.outcome.rejected
  /\ Len(mem.errors) = 1 /\ cfg.onError = "returns"

\* C2: a track call with an empty event returns false, calls no transport,
\* reports no error, does not touch sessionStorage and leaves the session
\* record, the buffer and the fetches in flight as they were.
C2_EmptyEventNoEffect ==
  [][(out'.op = "track" /\ out'.event = "")
       => /\ mem'.ret = "false" /\ ~mem'.threw
          /\ mem'.calls = <<>> /\ mem'.errors = <<>> /\ mem'.callback = <<>>
          /\ mem'.reads = 0 /\ mem'.writes = 0
          /\ mem'.storage = mem.storage /\ mem'.uuids = mem.uuids
          /\ mem'.network = mem.network
          /\ mem'.bandwidthBuffer = mem.bandwidthBuffer
          /\ mem'.sessionLog = mem.sessionLog]_vars

\* track('') has returned false in a browser that holds a session record.
C2_Witness ==
  /\ out.op = "track" /\ out.event = "" /\ mem.ret = "false"
  /\ env.window /\ env.sessionStorage /\ mem.storage.id # NoId

\* The calls of a run that concern its n-th payload.
CallsOf(m, n, via) ==
  SelectSeq(m.calls, LAMBDA call : call.via = via /\ call.n = n)
Payloads(m) == 1..Len(Via(m, "send"))
BeaconFailed(e, m, n) ==
  \/ e.navigator # "beacon"
  \/ \E i \in 1..Len(m.calls) :
       /\ m.calls[i].via = "beacon" /\ m.calls[i].n = n
       /\ m.calls[i].outcome \in {"false", "throws"}
\* The beacon call for payload n, if any, comes before its fetch call.
BeaconFirst(m, n) ==
  \A i, j \in 1..Len(m.calls) :
    (/\ m.calls[i].via = "beacon" /\ m.calls[i].n = n
     /\ m.calls[j].via = "fetch" /\ m.calls[j].n = n) => i < j
SameBody(m, n) ==
  \A i \in 1..Len(m.calls) :
    m.calls[i].n = n => m.calls[i].body = CallsOf(m, n, "send")[1].body
AtMostOneChannel(e, m, n) ==
  /\ Len(CallsOf(m, n, "beacon")) = (IF e.navigator = "beacon" THEN 1 ELSE 0)
  /\ Len(CallsOf(m, n, "fetch")) <= 1
  /\ BeaconFirst(m, n)
  /\ SameBody(m, n)
  /\ ~(BeaconFailed(e, m, n)) => Len(CallsOf(m, n, "fetch")) = 0

C4_NoTransportReportsUnknown ==
  (/\ out.op = "track" /\ out.event # ""
   /\ env.navigator # "beacon" /\ ~env.fetch)
    => /\ mem.errors = <<BlipLogsError("unknown", NoStatus)>>
       /\ mem.ret = "false" /\ ~mem.threw

\* C5: on the fetch path of an event a non-success response is reported
\* with the type its status decides (429 rate_limit, 401 auth, 400
\* validation, any other unknown) and with that status as statusCode; a
\* rejected fetch is reported as network; a success response reports nothing.
C5_StatusDecidesErrorType ==
  (out.op = "settle" /\ out.kind = "events") =>
    LET status == out.outcome.status
        expected == CASE status = 429 -> "rate_limit"
                      [] status = 401 -> "auth"
                      [] status = 400 -> "validation"
                      [] OTHER -> "unknown"
    IN IF out.outcome.rejected
       THEN Len(mem.errors) = 1 /\ mem.errors[1].type = "network"
       ELSE IF ResponseOk(status) THEN mem.errors = <<>>
       ELSE mem.errors = <<[type |-> expected, statusCode |-> status]>>

\* A 401 response to an event fetch has been reported as auth.
C5_Witness ==
  /\ out.op = "settle" /\ out.kind = "events"
  /\ ~out.outcome.rejected /\ out.outcome.status = 401
  /\ Len(mem.errors) = 1 /\ mem.errors[1].type = "auth"

\* C6: no run of a handler that reported through handleError ends with an
\* exception, whatever the onError callback does and whether debug is on or
\* off; the callback, when there is one, got every report.
C6_CallbackNeverPropagates ==
  Len(mem.errors) > 0 =>
    /\ ~mem.threw /\ mem.ret # "threw"
    /\ (cfg.onError # "none" => mem.callback = mem.errors)
    /\ (cfg.onError = "none" => mem.callback = <<>>)

\* A throwing onError callback has been called from track, with debug off.
C6_Witness ==
  /\ cfg.onError = "throws" /\ ~cfg.debug
  /\ out.op = "track" /\ Len(mem.callback) = 1 /\ mem.ret = "false"

\* C7 as stated: a bandwidth batch whose delivery failed, because its fetch
\* rejected or because no transport took it, is reported as a network error
\* and nothing is raised.
Untaken(m, n) ==
  /\ Len(CallsOf(m, n, "fetch")) = 0
  /\ \A i \in 1..Len(m.calls) :
       (m.calls[i].via = "beacon" /\ m.calls[i].n = n)
         => m.calls[i].outcome # "true"
NetworkReports(m) ==
  SelectSeq(m.errors, LAMBDA report : report.type = "network")

C7_BandwidthFailureReported ==
  /\ (out.op = "settle" /\ out.kind = "bandwidth" /\ out.outcome.rejected)
       => (Len(NetworkReports(mem)) = 1 /\ ~mem.threw)
  /\ \A n \in Payloads(mem) :
       (CallsOf(mem, n, "send")[1].endpoint = "bandwidth" /\ Untaken(mem, n))
         => (Len(NetworkReports(mem)) >= 1 /\ ~mem.threw)

\* C8 as stated: in every environment no call of track, no bandwidth flush
\* (observer, timer, visibility change) and no stopBandwidthTracking throws.
C8_NeverThrows ==
  out.op \in {"track", "observe", "timer", "visibilitychange", "stop"}
    => (~mem.threw /\ mem.ret # "threw")

\* C9 as stated: in a browser no sendBeacon or fetch call carries the
\* configured apiKey, in its body or in its headers.
C9_NoSecretFromBrowser ==
  env.window =>
    \A i \in 1..Len(mem.calls) :
      mem.calls[i].via \in {"beacon", "fetch"}
        => /\ mem.calls[i].body.api_key = Undefined
           /\ mem.calls[i].headers.x_api_key = Undefined

\* C10 as stated: of two consecutive getSessionId calls at t1 <= t2 the
\* second returns the id of the first when t2 - t1 <= 30 minutes and another
\* id when t2 - t1 > 30 minutes.
C10_SameIdWithinTimeout ==
  Len(mem.sessionLog) = 2 =>
    LET first == mem.sessionLog[1]
        second == mem.sessionLog[2]
    IN /\ (second.t - first.t <= SESSION_TIMEOUT) => second.id = first.id
       /\ (second.t - first.t > SESSION_TIMEOUT) => second.id # first.id

\* C11 as stated: every successful getSessionId call stores the current time
\* as last activity, and a call that comes at most 30 minutes after the
\* previous successful call returns the id that call returned, so the id
\* never changes along a chain of such calls.
LastCall(m) == m.sessionLog[Len(m.sessionLog)]
C11_SlidingWindow ==
  [][(/\ Len(mem.sessionLog) > 0
      /\ mem'.sessionLog # mem.sessionLog
      /\ LastCall(mem').t - LastCall(mem).t <= SESSION_TIMEOUT)
       => /\ LastCall(mem').id = LastCall(mem).id
          /\ mem'.storage = [id |-> LastCall(mem').id,
                             ts |-> ToDigits(LastCall(mem').t)]]_vars

\* The payloads of a run, as handed to send and sendBandwidth.
EventPayloads(m) ==
  SelectSeq(m.calls,
            LAMBDA call : call.via = "send" /\ call.endpoint = "events")
BandwidthBatches(m) ==
  SelectSeq(m.calls,
            LAMBDA call : call.via = "send" /\ call.endpoint = "bandwidth")
ContextOf(call) ==
  IF call.endpoint = "events" THEN call.body.payload.context
  ELSE call.body.context
SessionOf(call) ==
  IF call.endpoint = "events" THEN call.body.payload.session_id
  ELSE call.body.session_id

\* C12 as stated: when window or sessionStorage is absent, or a storage read,
\* a storage write or the id generation throws, getSessionId returns
\* undefined without throwing, and the track call around it hands its payload
\* to the transport without a session id.
SessionUnavailable(e, m) ==
  \/ ~e.window \/ ~e.sessionStorage
  \/ m.fault \in {"getItem", "setItem"}
  \/ (m.fault = "randomUUID" /\ m.writes = 0)
C12_NoSessionStillDispatches ==
  (/\ out.op = "track" /\ out.event # "" /\ cfg.collectSessionId
   /\ SessionUnavailable(env, mem))
    => /\ ~mem.threw /\ mem.ret # "threw"
       /\ mem.sid = NoId
       /\ Len(EventPayloads(mem)) = 1
       /\ EventPayloads(mem)[1].body.payload.session_id = NoId

\* C13: the context of every payload carries the configured projectId;
\* without a window it carries nothing else; with a window it carries a url
\* only if collectUrl is on, a referrer only if collectReferrer is on and
\* document.referrer is not empty, and a userAgent only if collectUserAgent
\* is on (and whenever the flag is on and the value exists, it is carried).
Present(url) == url.kind \notin {"undefined", "empty"}
C13_ContextFollowsPrivacy ==
  \A i \in 1..Len(mem.calls) :
    LET context == ContextOf(mem.calls[i])
    IN /\ context.projectId = ProjectId
       /\ ~env.window => context = BaseContext
       /\ env.window =>
            /\ Present(context.url) <=> (cfg.collectUrl /\ Present(env.href))
            /\ Present(context.referrer)
                 <=> (cfg.collectReferrer /\ Present(env.referrer))
            /\ (context.userAgent # Undefined) <=> cfg.collectUserAgent

\* A payload went out from a page with an empty referrer, with collectReferrer
\* on and collectUserAgent off: it has the url and neither of the other two.
C13_Witness ==
  /\ env.window /\ cfg.collectUrl /\ cfg.collectReferrer
  /\ ~cfg.collectUserAgent /\ env.referrer = EmptyUrl
  /\ Len(EventPayloads(mem)) = 1
  /\ Present(ContextOf(EventPayloads(mem)[1]).url)
  /\ ~Present(ContextOf(EventPayloads(mem)[1]).referrer)

\* C14: a payload carries a session id only if collectSessionId is on and
\* window and sessionStorage exist; with collectSessionId off no handler run
\* reads or writes sessionStorage and the session record stays as it was.
C14_SessionOnlyIfCollected ==
  /\ \A i \in 1..Len(mem.calls) :
       SessionOf(mem.calls[i]) # NoId
         => (cfg.collectSessionId /\ env.window /\ env.sessionStorage)
  /\ ~cfg.collectSessionId
       => /\ mem.reads = 0 /\ mem.writes = 0
          /\ mem.storage = NoStorage /\ mem.uuids = 0

\* With collectSessionId off, a track call and a bandwidth flush have handed
\* their payloads over in a browser with sessionStorage.
C14_Witness ==
  /\ ~cfg.collectSessionId /\ env.window /\ env.sessionStorage
  /\ out.op = "track" /\ Len(EventPayloads(mem)) = 1
  /\ Len(mem.handedOver) > 0

\* C15: every event payload handed to the transport has a non-empty event,
\* a level among info, warn and error, the configured projectId in its
\* context and the project identity in the body.
C15_EventPayloadWellFormed ==
  \A i \in 1..Len(EventPayloads(mem)) :
    LET body == EventPayloads(mem)[i].body
    IN /\ body.payload.event # ""
       /\ body.payload.level \in Levels
       /\ body.payload.context.projectId = ProjectId
       /\ body.project_id = ProjectId

\* instance.warn('signup') has handed over a payload of level warn.
C15_Witness ==
  /\ out.op = "warn" /\ out.event = "signup"
  /\ Len(EventPayloads(mem)) = 1
  /\ EventPayloads(mem)[1].body.payload.level = "warn"

\* C16 as stated: in every event payload timestamp_ms is the millisecond
\* value of the ISO timestamp.
C16_TimestampsAgree ==
  \A i \in 1..Len(EventPayloads(mem)) :
    LET payload == EventPayloads(mem)[i].body.payload
    IN payload.timestamp_ms = DateParse(payload.timestamp)

\* C17: the observer, the timer and the visibility listener exist only if
\* bandwidth tracking is enabled and window and PerformanceObserver exist;
\* otherwise nothing is ever buffered and no bandwidth payload is handed to
\* the transport.
Supported(e, c) == c.trackBandwidth /\ e.window /\ e.PerformanceObserver
C17_ActiveOnlyIfSupported ==
  /\ (mem.bandwidthObserver \/ mem.bandwidthIntervalId \/ visibilityListener)
       => Supported(env, cfg)
  /\ ~Supported(env, cfg)
       => /\ mem.bandwidthBuffer = <<>> /\ mem.accepted = <<>>
          /\ mem.handedOver = <<>>
          /\ \A i \in 1..Len(mem.calls) : mem.calls[i].endpoint # "bandwidth"

\* stopBandwidthTracking has run on an instance that asked for bandwidth
\* tracking in a browser without PerformanceObserver.
C17_Witness ==
  /\ cfg.trackBandwidth /\ env.window /\ ~env.PerformanceObserver
  /\ out.op = "stop" /\ ~mem.bandwidthObserver /\ mem.calls = <<>>

\* C18 as stated: the resources of all batches handed to the transport so
\* far, in hand-off order, followed by the buffer, are the accepted
\* observations in order.
C18_FifoUntilHandOff ==
  mem.handedOver \o mem.bandwidthBuffer = mem.accepted

\* C19: a flush by the timer, by stop or by a change to hidden hands over
\* the first min(buffer length, maxBatchSize) entries of the buffer and leaves
\* the others in the buffer in order; the batches an observer callback hands
\* over have exactly maxBatchSize entries each and, with what stays in the
\* buffer, are the buffer and the new entries in order.
FlushOnly(o) ==
  o.op \in {"timer", "stop"} \/ (o.op = "visibilitychange" /\ o.event = "hidden")
C20_FullBufferFlushesAtOnce ==
  [][(/\ out'.op = "observe"
      /\ Len(mem.bandwidthBuffer) + Len(mem'.accepted) - Len(mem.accepted)
           >= cfg.maxBatchSize)
       => Len(BandwidthBatches(mem')) >= 1]_vars

\* C21 as stated: while the timer is running, every entry in the buffer is
\* eventually handed to the transport in some batch, unless the instance is
\* stopped first.
InBuffer(m, n) ==
  \E i \in 1..Len(m.bandwidthBuffer) : m.bandwidthBuffer[i].startTime = n
WasHandedOver(m, n) ==
  \E i \in 1..Len(m.handedOver) : m.handedOver[i].startTime = n
C21_TimerDrainsBuffer ==
  \A n \in 1..MaxObs :
    (InBuffer(mem, n) /\ mem.bandwidthIntervalId)
      ~> (WasHandedOver(mem, n) \/ ~mem.bandwidthIntervalId)

\* C22: while the instance is Active, a visibility change to hidden flushes
\* at once: the first batch leaves the buffer and, unless the flush throws,
\* is handed to the transport in the same step; a change to any other state
\* hands nothing over and leaves the buffer as it was.
Active(m) == m.bandwidthObserver /\ m.bandwidthIntervalId
Idle(m) == ~m.bandwidthObserver /\ ~m.bandwidthIntervalId
Stopped(e, c, m) == Supported(e, c) /\ Idle(m)
C24_StopIsTerminal ==
  [][/\ out'.op = "stop" => (Idle(mem') /\ ~visibilityListener')
     /\ Stopped(env, cfg, mem)
          => /\ Idle(mem') /\ mem'.bandwidthBuffer = <<>>
             /\ mem'.accepted = mem.accepted
             /\ mem'.handedOver = mem.handedOver
             /\ BandwidthBatches(mem') = <<>>]_vars

\* C25 as stated: with two instances on one page the session record is
\* always an id together with the time of the latest access; an instance
\* reports the id the record holds, never one of its own; and an access that
\* comes at most 30 minutes after the previous access, by either instance,
\* reports the id that access reported.
C25_SharedSession ==
  /\ mem.sessionLog # <<>>
       => mem.storage = [id |-> LastCall(mem).id,
                         ts |-> ToDigits(LastCall(mem).t)]
  /\ mem.sid # NoId => mem.sid = mem.storage.id
  /\ Len(mem.sessionLog) = 2
       => LET first == mem.sessionLog[1]
              second == mem.sessionLog[2]
          IN second.t - first.t <= SESSION_TIMEOUT => second.id = first.id

\* C26: when the observer of an Active instance delivers entries, those
\* whose type tag (other when the tag is empty) is not in a non-empty
\* allow-list are dropped: if none of the delivered entries is listed the
\* buffer stays as it was, nothing is handed to the transport and no error
\* is reported or thrown; the entries that are listed, which with an empty
\* allow-list are all of them, are buffered in order unless a flush throws.
TagOf(entry) ==
  IF entry.initiatorType = "" THEN "other" ELSE entry.initiatorType
Listed(c, entry) == c.resourceTypes = {} \/ TagOf(entry) \in c.resourceTypes
StartTimes(entries) == [i \in 1..Len(entries) |-> entries[i].startTime]
C26_AllowListFilters ==
  [][\A list \in FilterLists :
       (/\ out'.op = "observe" /\ Len(list) = observed' - observed
        /\ Observe(list, Accepting, "none"))
         => LET kept == SelectSeq(list, LAMBDA entry : Listed(cfg, entry))
                added == SubSeq(mem'.accepted, Len(mem.accepted) + 1,
                                Len(mem'.accepted))
            IN /\ kept = <<>>
                    => /\ mem'.bandwidthBuffer = mem.bandwidthBuffer
                       /\ mem'.accepted = mem.accepted
                       /\ mem'.calls = <<>> /\ mem'.errors = <<>>
                       /\ mem'.console = <<>> /\ ~mem'.threw
               /\ ~mem'.threw
                    => /\ StartTimes(added) = StartTimes(kept)
                       /\ \A i \in 1..Len(added) :
                            added[i].resourceType = TagOf(kept[i])]_vars

\* With an allow-list configured the observer has delivered entries and none
\* of them was buffered.
C26_Witness ==
  /\ out.op = "observe" /\ cfg.resourceTypes # {} /\ Active(mem)
  /\ observed > 0 /\ mem.accepted = <<>> /\ mem.calls = <<>>

\* C30: with sanitizeUrls on, the url of every entry the observer callback
\* buffers is scheme, host and path of the observed resource URL, without
\* its query string and without its fragment, and so is the url of every
\* entry in the buffer.
SchemeHostPath(url) ==
  [kind |-> "absolute", base |-> url.base, question |-> FALSE, query |-> <<>>,
   hash |-> ""]
C30_ResourceUrlStripped ==
  [][\A list \in FilterLists :
       (/\ cfg.sanitizeUrls
        /\ out'.op = "observe" /\ Len(list) = observed' - observed
        /\ Observe(list, Accepting, "none"))
         => LET kept == SelectSeq(list, LAMBDA entry : Listed(cfg, entry))
                added == SubSeq(mem'.accepted, Len(mem.accepted) + 1,
                                Len(mem'.accepted))
            IN /\ \A i \in 1..Len(added) :
                    added[i].url = SchemeHostPath(kept[i].name)
               /\ \A i \in 1..Len(mem'.bandwidthBuffer) :
                    LET url == mem'.bandwidthBuffer[i].url
                    IN url = SchemeHostPath(url)]_vars

\* A resource whose URL has a query string and a fragment was observed with
\* sanitizeUrls on and buffered without them.
C30_Witness ==
  /\ out.op = "observe" /\ cfg.sanitizeUrls
  /\ \E i \in 1..Len(mem.bandwidthBuffer) :
       mem.bandwidthBuffer[i].url = SchemeHostPath(ResourceUrl)
  /\ ResourceUrl.question /\ ResourceUrl.hash # ""

\* C27 as stated: new BlipLogs(config) throws exactly when projectId is
\* missing, or window is undefined and apiKey is missing; a construction that
\* throws starts no observer, no timer and no visibility listener; and on a
\* constructed instance no call and no callback ends with an exception.
C27_OnlyConstructionIsFatal ==
  /\ out.op = "constructor"
       => /\ mem.threw <=> (\/ cfg.projectId = ""
                            \/ (~env.window /\ cfg.apiKey = Undefined))
          /\ mem.threw => (Idle(mem) /\ ~visibilityListener)
  /\ out.op # "constructor" => ~mem.threw

\* C28: for a URL that parses, the result of sanitizeUrl has the same
\* scheme, host, path and fragment; every parameter in it whose name is in
\* the sensitive set when lower-cased has the value [REDACTED]; every
\* sensitive parameter name of the input is still present; and the
\* parameters with other names are the same, with the same values, in the
\* same order.
Sensitive(p) == toLowerCase(p.key) \in SENSITIVE_PARAMS
C28_SensitiveValuesRedacted ==
  (out.op = "sanitizeUrl" /\ out.url.kind = "absolute")
    => LET query == out.url.query
           result == out.result
       IN /\ result.kind = "absolute" /\ result.base = out.url.base
          /\ result.hash = out.url.hash
          /\ \A i \in 1..Len(result.query) :
               Sensitive(result.query[i])
                 => result.query[i].value = "[REDACTED]"
          /\ \A i \in 1..Len(query) :
               Sensitive(query[i])
                 => \E j \in 1..Len(result.query) :
                      result.query[j].key = query[i].key
          /\ SelectSeq(result.query, LAMBDA p : ~Sensitive(p))
               = SelectSeq(query, LAMBDA p : ~Sensitive(p))

\* A URL with a sensitive parameter written in mixed case and a parameter
\* that is not sensitive went through sanitizeUrl.
C28_Witness ==
  /\ out.op = "sanitizeUrl" /\ out.url.kind = "absolute"
  /\ out.url.query = <<Param("Token", "abc"), Param("q", "shoes")>>
  /\ out.result.query = <<Param("Token", "[REDACTED]"), Param("q", "shoes")>>

\* C29: for a string that does not parse, sanitizeUrl returns what stands
\* before the first ? followed by ?[QUERY_REDACTED] when there is a ?, and
\* the string itself when there is none; for undefined and for the empty
\* string it returns undefined.
C29_FallbackStripsQuery ==
  out.op = "sanitizeUrl"
    => /\ (out.url.kind = "other" /\ out.url.question)
            => out.result = Url("other", out.url.base, TRUE,
                                <<Param("[QUERY_REDACTED]", "")>>, "")
       /\ (out.url.kind = "other" /\ ~out.url.question)
            => out.result = out.url
       /\ out.url.kind \in {"undefined", "empty"}
            => out.result = UndefinedUrl

\* A string that does not parse, with a query and a fragment, went through
\* sanitizeUrl and lost both.
C29_Witness ==
  /\ out.op = "sanitizeUrl" /\ out.url.kind = "other"
  /\ out.url.query # <<>> /\ out.url.hash # ""
  /\ out.result.query = <<Param("[QUERY_REDACTED]", "")>>
  /\ out.result.hash = ""

\* C31: when a pattern of BOT_PATTERNS matches the user-agent string, the
\* result has isBot true, browser and botName equal to the name of the first
\* pattern in list order that matches, and the defaults for browserVersion,
\* os and deviceType, whatever else the string contains.
MatchingBots(ua) ==
  {i \in 1..Len(BOT_PATTERNS) : Test(BOT_PATTERNS[i].alts, ua)}
C31_BotShortCircuit ==
  (out.op = "parseUserAgent" /\ MatchingBots(out.ua) # {})
    => \E i \in MatchingBots(out.ua) :
         /\ \A j \in MatchingBots(out.ua) : i <= j
         /\ out.result.isBot
         /\ out.result.browser = BOT_PATTERNS[i].name
         /\ out.result.botName = BOT_PATTERNS[i].name
         /\ out.result.browserVersion = ""
         /\ out.result.os = "Unknown"
         /\ out.result.deviceType = "unknown"
         /\ out.result.raw = out.ua

\* A string that names bingbot before Googlebot and looks like Chrome on
\* Windows was parsed: it is Googlebot, the earlier pattern of the list.
C31_Witness ==
  /\ out.op = "parseUserAgent" /\ Len(out.ua) = 3
  /\ out.ua[1].text = "bingbot/2.0" /\ out.ua[2].text = "Googlebot/2.1"
  /\ out.ua[3].text = "Windows NT 10.0"
  /\ out.result.isBot /\ out.result.botName = "Googlebot"

\* C32 as stated: after construction bandwidth tracking is enabled, and in a
\* browser with PerformanceObserver running, exactly when trackBandwidth is
\* true or an object whose enabled is true.
EnabledAsDocumented(trackBandwidth) ==
  \/ (trackBandwidth.kind = "boolean" /\ trackBandwidth.enabled = "true")
  \/ (trackBandwidth.kind = "object" /\ trackBandwidth.enabled = "true")
C32_OffUnlessEnabled ==
  out.op = "constructor"
    => /\ cfg.trackBandwidth <=> EnabledAsDocumented(out.trackBandwidth)
       /\ Active(mem)
            <=> (/\ EnabledAsDocumented(out.trackBandwidth)
                 /\ env.window /\ env.PerformanceObserver)

\* C33: in every bandwidth payload handed to the transport, resourceCount is
\* the number of entries of resources and totalTransferSize is the sum of
\* their transferSize values.
RECURSIVE TotalOf(_, _)
TotalOf(resources, upTo) ==
  IF upTo = 0 THEN 0
  ELSE resources[upTo].transferSize + TotalOf(resources, upTo - 1)
C33_TotalsMatchResources ==
  \A i \in 1..Len(BandwidthBatches(mem)) :
    LET payload == BandwidthBatches(mem)[i].body
    IN /\ payload.resourceCount = Cardinality(DOMAIN payload.resources)
       /\ payload.totalTransferSize
            = TotalOf(payload.resources, Len(payload.resources))
\* A batch of two resources of different non-zero sizes was handed over.
C33_Witness ==
  \E i \in 1..Len(BandwidthBatches(mem)) :
    LET payload == BandwidthBatches(mem)[i].body
    IN /\ payload.resourceCount = 2
       /\ payload.resources[1].transferSize = 7
       /\ payload.resources[2].transferSize = 9
       /\ payload.totalTransferSize = 16

\* C34: with maxBatchSize at least 1, between handler runs the buffer holds
\* fewer than maxBatchSize entries, whatever observations, timer firings,
\* visibility changes and stops came before; and every bandwidth payload handed
\* to the transport carries at least 1 and at most maxBatchSize entries.
C34_BufferBelowBatchSize ==
  cfg.maxBatchSize >= 1
    => /\ Len(mem.bandwidthBuffer) < cfg.maxBatchSize
       /\ \A i \in 1..Len(BandwidthBatches(mem)) :
            LET resources == BandwidthBatches(mem)[i].body.resources
            IN Len(resources) >= 1 /\ Len(resources) <= cfg.maxBatchSize
\* An observation filled the buffer to maxBatchSize > 1 and the whole batch
\* went out, leaving the buffer empty.
C34_Witness ==
  /\ out.op = "observe"
  /\ cfg.maxBatchSize > 1
  /\ Len(mem.bandwidthBuffer) = 0
  /\ \E i \in 1..Len(BandwidthBatches(mem)) :
       Len(BandwidthBatches(mem)[i].body.resources) = cfg.maxBatchSize

\* C35: a flush takes its batch out of the buffer before sending and nothing
\* puts it back: once an accepted entry has left the buffer, no step returns
\* it to the buffer or hands it over again, whether the send found no
\* transport, the fetch was rejected later, or the send went through; and no
\* entry handed to the transport is still in the buffer.
WasAccepted(m, n) ==
  \E i \in 1..Len(m.accepted) : m.accepted[i].startTime = n
TimesHandedOver(m, n) ==
  Cardinality({i \in 1..Len(m.handedOver) : m.handedOver[i].startTime = n})
C35_BatchNeverRestored ==
  [][\A n \in 1..MaxObs :
       /\ (WasAccepted(mem, n) /\ ~InBuffer(mem, n))
            => /\ ~InBuffer(mem', n)
               /\ TimesHandedOver(mem', n) = TimesHandedOver(mem, n)
       /\ WasHandedOver(mem', n) => ~InBuffer(mem', n)]_vars
\* The fetch of a batch has been rejected and its resources are not in the
\* buffer.
C35_Witness ==
  /\ out.op = "settle" /\ out.kind = "bandwidth" /\ out.outcome.rejected
  /\ Len(mem.handedOver) >= 1
  /\ \A n \in 1..MaxObs : WasHandedOver(mem, n) => ~InBuffer(mem, n)

\* C36: an event send makes at most one report to the error channel.  The
\* track call that sends reports nothing when sendBeacon accepted the payload
\* or a fetch was dispatched, and exactly one error when no transport took
\* it; the continuation of a dispatched fetch reports nothing for a success
\* response and exactly one error for a non-success response or a rejection.
\* Each report calls onError, where one is configured, exactly once.
C36_OneReportPerSend ==
  /\ (out.op = "track" /\ Len(EventPayloads(mem)) = 1)
       => /\ (BeaconAccepted(mem) => (mem.errors = <<>> /\ ~Dispatched(mem)))
          /\ (Dispatched(mem) => mem.errors = <<>>)
          /\ (~BeaconAccepted(mem) /\ ~Dispatched(mem)) => Len(mem.errors) = 1
  /\ (out.op = "settle" /\ out.kind = "events")
       => Len(mem.errors) = (IF Failed(out.outcome) THEN 1 ELSE 0)
  /\ out.op \in {"track", "settle"}
       => Len(mem.callback)
            = (IF cfg.onError = "none" THEN 0 ELSE Len(mem.errors))
\* A track call found no transport for its payload and the one report
\* reached the onError callback once.
C36_Witness ==
  /\ out.op = "track" /\ Len(EventPayloads(mem)) = 1
  /\ ~env.fetch /\ env.navigator = "beacon" /\ ~BeaconAccepted(mem)
  /\ cfg.onError = "returns"
  /\ Len(mem.errors) = 1 /\ Len(mem.callback) = 1

\* C37: with session collection enabled, a flush that finds resources in the
\* buffer leaves the session record exactly as a track call at that moment
\* would (the same id, the current time as last activity), so resource
\* activity keeps a session alive like events do; a timer firing, a change to
\* hidden or a stop that finds the buffer empty reads and writes no session
\* key and calls no transport.
AsTrack(m, now) == track(env, cfg, Begin(m), "signup", "info", now, now, Accepting)
FlushStep ==
  /\ ticks' = ticks
  /\ \/ out'.op = "timer"
     \/ out'.op = "stop"
     \/ (out'.op = "visibilitychange" /\ out'.event = "hidden")
C37_FlushRefreshesSession ==
  [][/\ ((\/ (FlushStep /\ Len(mem.bandwidthBuffer) > 0)
            \/ (/\ ticks' = ticks /\ out'.op = "observe"
                /\ Len(BandwidthBatches(mem')) = 1))
          /\ cfg.collectSessionId)
         => /\ mem'.storage = AsTrack(mem, clock).storage
            /\ mem'.storage.ts = ToDigits(clock)
            /\ mem'.uuids = AsTrack(mem, clock).uuids
            /\ BandwidthBatches(mem')[1].body.session_id = mem'.storage.id
     /\ (FlushStep /\ Len(mem.bandwidthBuffer) = 0)
         => /\ mem'.storage = mem.storage /\ mem'.uuids = mem.uuids
            /\ mem'.reads = 0 /\ mem'.writes = 0
            /\ mem'.calls = <<>> /\ mem'.network = mem.network]_vars
\* A timer flush, more than 30 minutes after the tab's session was last
\* active according to the first of two flushes, kept the id of that flush.
C37_Witness ==
  /\ out.op = "timer" /\ Len(BandwidthBatches(mem)) = 1
  /\ Len(mem.sessionLog) = 2
  /\ mem.sessionLog[2].id = mem.sessionLog[1].id
  /\ mem.sessionLog[2].t - mem.sessionLog[1].t = SESSION_TIMEOUT
  /\ mem.storage.ts = ToDigits(clock)

\* C38: when the stored last-activity value is absent, is no number, or has
\* the value 0, a getSessionId call that completes generates a new id, stores
\* it in place of any stored id, stores the current time and returns the new
\* id.
RECURSIVE LeadingZeros(_)
LeadingZeros(str) ==
  \/ str = <<>>
  \/ Head(str) < 0
  \/ (Head(str) = 0 /\ LeadingZeros(Tail(str)))
MissingTimestamp(str) ==
  \/ str = <<>>                                   \* absent
  \/ Head(str) < 0                                \* not parsable
  \/ (Head(str) = 0 /\ LeadingZeros(Tail(str)))   \* the value 0
StaticOps ==
  {"static.track", "static.info", "static.warn", "static.error",
   "static.stopBandwidthTracking"}
C39_ConfigureLeavesPrevious ==
  [][/\ (out'.op \in StaticOps /\ globalInstance = "null")
          => /\ mem'.threw /\ mem'.calls = <<>>
             /\ mem'.storage = mem.storage
             /\ Private(mem') = Private(mem) /\ peer' = peer
     /\ (out'.op = "configure" /\ globalInstance = "mem")
          => /\ globalInstance' = "peer"
             /\ Private(mem') = Private(mem)
             /\ peer' = Private(constructor(env, cfg))
     /\ (out'.op \in StaticOps /\ globalInstance = "peer")
          => /\ Private(mem') = Private(mem)
             /\ (out'.op = "static.stopBandwidthTracking" => Idle(peer'))
             /\ (out'.op # "static.stopBandwidthTracking"
                   => /\ peer' = peer
                      /\ (~mem'.threw => Len(EventPayloads(mem')) = 1))
     /\ (/\ out'.op = "timer" /\ globalInstance = "peer"
         /\ Len(mem.bandwidthBuffer) > 0)
          => /\ Active(mem') /\ peer' = peer
             /\ Len(mem'.bandwidthBuffer) < Len(mem.bandwidthBuffer)
             /\ (~mem'.threw => Len(BandwidthBatches(mem')) = 1)]_vars
\* After a second configure and a static stopBandwidthTracking, the timer of
\* the first instance has handed a batch to the transport.
C39_Witness ==
  /\ globalInstance = "peer" /\ Idle(peer)
  /\ out.op = "timer" /\ Active(mem)
  /\ Len(BandwidthBatches(mem)) = 1
====
